---- MODULE Spec2Model ----
(***************************************************************************)
(* Model of the hybrid card search (rag/search_engine.py) and of the       *)
(* strategy scout that drives it (agents/strategy_scout.py).               *)
(*                                                                         *)
(* Python values are represented as follows.  A str is a TLA+ string, read *)
(* as a sequence of one-character strings (Len, SubSeq and \o apply).  An  *)
(* Optional[List[..]] that the code only tests by truthiness is a          *)
(* sequence, None and [] both being <<>>.  An Optional[int] tested with    *)
(* "is not None" is <<>> for None and <<v>> for the value v.               *)
(* max_factions_per_card and max_rarity are tested by truthiness, so None  *)
(* is 0 and "" respectively.                                               *)
(***************************************************************************)
EXTENDS Integers, Sequences, FiniteSets, TLC

\* ------------------------------------------------------------------------
\* Bounds
\* ------------------------------------------------------------------------
\* largest n_results of a direct search call; larger than the catalog plus
\* the must-include list, so that the untruncated case happens
MaxN == 8

\* ------------------------------------------------------------------------
\* str helpers
\* ------------------------------------------------------------------------
UpperToLower ==
  [c \in {"A","B","C","D","E","F","G","H","I","J","K","L","M",
          "N","O","P","Q","R","S","T","U","V","W","X","Y","Z"} |->
     CASE c = "A" -> "a" [] c = "B" -> "b" [] c = "C" -> "c" [] c = "D" -> "d"
       [] c = "E" -> "e" [] c = "F" -> "f" [] c = "G" -> "g" [] c = "H" -> "h"
       [] c = "I" -> "i" [] c = "J" -> "j" [] c = "K" -> "k" [] c = "L" -> "l"
       [] c = "M" -> "m" [] c = "N" -> "n" [] c = "O" -> "o" [] c = "P" -> "p"
       [] c = "Q" -> "q" [] c = "R" -> "r" [] c = "S" -> "s" [] c = "T" -> "t"
       [] c = "U" -> "u" [] c = "V" -> "v" [] c = "W" -> "w" [] c = "X" -> "x"
       [] c = "Y" -> "y" [] c = "Z" -> "z"]

\* str.lower()
RECURSIVE Lower(_)
Lower(s) ==
  IF Len(s) = 0 THEN ""
  ELSE IF Len(s) = 1
    THEN IF s \in DOMAIN UpperToLower THEN UpperToLower[s] ELSE s
  ELSE LET half == Len(s) \div 2
       IN  Lower(SubSeq(s, 1, half)) \o Lower(SubSeq(s, half + 1, Len(s)))

\* str.upper()
RECURSIVE Upper(_)
Upper(s) ==
  IF Len(s) = 0 THEN ""
  ELSE IF Len(s) = 1
    THEN IF \E u \in DOMAIN UpperToLower : UpperToLower[u] = s
           THEN CHOOSE u \in DOMAIN UpperToLower : UpperToLower[u] = s
           ELSE s
  ELSE LET half == Len(s) \div 2
       IN  Upper(SubSeq(s, 1, half)) \o Upper(SubSeq(s, half + 1, Len(s)))

\* str.strip()
RECURSIVE Strip(_)
Strip(s) ==
  IF Len(s) = 0 THEN ""
  ELSE IF SubSeq(s, 1, 1) \in {" ", "\t", "\n"} THEN Strip(SubSeq(s, 2, Len(s)))
  ELSE IF SubSeq(s, Len(s), Len(s)) \in {" ", "\t", "\n"}
    THEN Strip(SubSeq(s, 1, Len(s) - 1))
  ELSE s

\* Python's "p in s" for two strs
StrIn(p, s) ==
  \E i \in 1..(Len(s) - Len(p) + 1) : SubSeq(s, i, i + Len(p) - 1) = p

\* " ".join(words)
RECURSIVE Join(_)
Join(words) ==
  IF words = <<>> THEN ""
  ELSE IF Len(words) = 1 THEN words[1]
  ELSE words[1] \o " " \o Join(Tail(words))

\* str.split(): the maximal runs of non-whitespace characters; word is the
\* run being read
RECURSIVE SplitWords(_, _)
SplitWords(s, word) ==
  IF Len(s) = 0 THEN (IF Len(word) = 0 THEN <<>> ELSE <<word>>)
  ELSE IF SubSeq(s, 1, 1) \in {" ", "\t", "\n"}
    THEN (IF Len(word) = 0 THEN <<>> ELSE <<word>>)
           \o SplitWords(SubSeq(s, 2, Len(s)), "")
  ELSE SplitWords(SubSeq(s, 2, Len(s)), word \o SubSeq(s, 1, 1))

\* re.sub(r'<[^>]+>', '', s): each "<", at least one character other than
\* ">" and the next ">" are removed, leftmost first
RECURSIVE RemoveTags(_)
RemoveTags(s) ==
  IF Len(s) = 0 THEN ""
  ELSE LET closing == {j \in 2..Len(s) : SubSeq(s, j, j) = ">"}
           first == CHOOSE j \in closing : \A k \in closing : j <= k
       IN  IF SubSeq(s, 1, 1) = "<" /\ closing # {} /\ first > 2
             THEN RemoveTags(SubSeq(s, first + 1, Len(s)))
             ELSE SubSeq(s, 1, 1) \o RemoveTags(SubSeq(s, 2, Len(s)))

\* the elements of a list, as a set
Range(seq) == {seq[i] : i \in 1..Len(seq)}

\* list[:n] for n >= 0
Take(seq, n) == SubSeq(seq, 1, IF n < Len(seq) THEN n ELSE Len(seq))

\* ------------------------------------------------------------------------
\* config.py
\* ------------------------------------------------------------------------
FACTION_NAMES == <<"Fire", "Time", "Justice", "Primal", "Shadow">>

FACTION_SYMBOLS ==
  [f \in Range(FACTION_NAMES) |->
     CASE f = "Fire" -> "{F}" [] f = "Time" -> "{T}" [] f = "Justice" -> "{J}"
       [] f = "Primal" -> "{P}" [] f = "Shadow" -> "{S}"]

\* ------------------------------------------------------------------------
\* data/models.py: Card
\* ------------------------------------------------------------------------
\* Card.clean_html_from_card_text, the "before" validator of card_text
clean_html_from_card_text(v) ==
  IF Len(v) = 0 THEN "" ELSE Join(SplitWords(RemoveTags(v), ""))

Card(name, cost, influence, type, card_text, rarity, unit_types) ==
  [name |-> name, cost |-> cost, influence |-> influence, type |-> type,
   card_text |-> clean_html_from_card_text(card_text), rarity |-> rarity,
   deck_buildable |-> TRUE, unit_types |-> unit_types]

is_power(card) == Lower(card.type) = "power"

is_unit(card) == Lower(card.type) = "unit"

is_spell(card) == Lower(card.type) = "spell"

\* is_sigil looking at the name alone
is_sigil_by_name(card) == StrIn("sigil", Lower(card.name))

is_sigil(card) == is_power(card) /\ StrIn("sigil", Lower(card.name))

can_access_market(card) ==
  IF card.card_text = "" THEN FALSE
  ELSE \E pattern \in {"your market", "from your market", "in your market"} :
         StrIn(pattern, Lower(card.card_text))

\* DeckCard.quantity: Field(1, ge=1, le=4)
DeckCardMinQuantity == 1

DeckCardMaxQuantity == 4

\* DeckCard(card=card, quantity=quantity): the model, or the ValidationError
\* pydantic raises when quantity is outside ge/le
DeckCard(card, quantity) ==
  [raised |-> ~(quantity >= DeckCardMinQuantity /\ quantity <= DeckCardMaxQuantity),
   card |-> card, quantity |-> quantity]

\* ------------------------------------------------------------------------
\* The card sheet the process loaded (GoogleSheetsClient.get_all_cards)
\* ------------------------------------------------------------------------
Catalog ==
  << Card("Torch",      1, "{F}",       "Spell", "Deal 3 damage",                 "Common",    <<>>),
     Card("Oni Ronin",  1, "{F}",       "Unit",  "Charge, Flying",                "Common",    <<"Oni", "Warrior">>),
     Card("Harsh Rule", 5, "{J}{J}",    "Spell", "Kill all units",                "Rare",      <<>>),
     Card("Fire Sigil", 0, "",          "Power", "",                              "Common",    <<>>),
     Card("Merchant",   3, "{F}{P}",    "Unit",  "Play a card from your market",  "Uncommon",  <<"Merchant">>),
     Card("Icaria",     7, "{F}{J}{J}", "Unit",  "Flying, Aegis, Warcry",         "Legendary", <<"Valkyrie">>) >>

\* ------------------------------------------------------------------------
\* rag/search_engine.py: SearchFilters
\* ------------------------------------------------------------------------
\* fa = <<allowed_factions, max_factions_per_card>>, co = <<min_cost,
\* max_cost>>, mk = <<include_market, market_access_only>>
SearchFilters(fa, max_rarity, co, card_types, unit_types, must_include, must_exclude, mk) ==
  [allowed_factions |-> fa[1],
   max_factions_per_card |-> fa[2],
   max_rarity |-> max_rarity,
   min_cost |-> co[1], max_cost |-> co[2],
   card_types |-> card_types, unit_types |-> unit_types,
   must_include |-> must_include, must_exclude |-> must_exclude,
   include_market |-> mk[1],
   market_access_only |-> mk[2]]

\* SearchFilters() with every field at its default
DefaultFilters ==
  SearchFilters(<< <<>>, 0 >>, "", << <<>>, <<>> >>, <<>>, <<>>, <<>>, <<>>, <<TRUE, FALSE>>)

\* ------------------------------------------------------------------------
\* rag/search_engine.py: SearchEngine
\* ------------------------------------------------------------------------
\* {card.name.lower(): card for card in self.all_cards}: a later card with
\* the same lower-cased name replaces an earlier one
cards_by_name(cards) ==
  LET lower == [i \in 1..Len(cards) |-> Lower(cards[i].name)]
  IN  [n \in Range(lower) |->
         LET last == CHOOSE i \in 1..Len(cards) :
                       /\ lower[i] = n
                       /\ \A j \in 1..Len(cards) : lower[j] = n => j <= i
         IN  cards[last]]

\* the distinct faction symbols found in a card's influence
CardFactions(card) ==
  {FACTION_SYMBOLS[f] : f \in {g \in DOMAIN FACTION_SYMBOLS :
                                  StrIn(FACTION_SYMBOLS[g], card.influence)}}

\* _filter_by_factions keeping a card as soon as one of its factions is
\* allowed
_filter_by_factions_any(cards, filters) ==
  IF filters.allowed_factions = <<>> THEN cards
  ELSE LET allowed_symbols ==
             {FACTION_SYMBOLS[f] : f \in Range(filters.allowed_factions)
                                          \cap DOMAIN FACTION_SYMBOLS}
           Keep(card) ==
             /\ \/ CardFactions(card) = {}
                \/ CardFactions(card) \cap allowed_symbols # {}
             /\ \/ filters.max_factions_per_card = 0
                \/ Cardinality(CardFactions(card)) <= filters.max_factions_per_card
       IN  SelectSeq(cards, Keep)

_filter_by_factions(cards, filters) ==
  IF filters.allowed_factions = <<>> THEN cards
  ELSE LET allowed_symbols ==
             {FACTION_SYMBOLS[f] : f \in Range(filters.allowed_factions)
                                          \cap DOMAIN FACTION_SYMBOLS}
           Keep(card) ==
             /\ CardFactions(card) \subseteq allowed_symbols
             /\ \/ filters.max_factions_per_card = 0
                \/ Cardinality(CardFactions(card)) <= filters.max_factions_per_card
       IN  SelectSeq(cards, Keep)

LowerAll(seq) == [i \in 1..Len(seq) |-> Lower(seq[i])]

\* _apply_post_filters without its max_cost test
_apply_post_filters_without_max_cost(cards, filters) ==
  LET AboveMin(c) == c.cost >= filters.min_cost[1]
      unit_types_lower == Range(LowerAll(filters.unit_types))
      HasUnitType(c) == \E i \in 1..Len(c.unit_types) :
                           Lower(c.unit_types[i]) \in unit_types_lower
      r1 == IF filters.min_cost # <<>> THEN SelectSeq(cards, AboveMin) ELSE cards
      r3 == IF filters.unit_types # <<>> THEN SelectSeq(r1, HasUnitType) ELSE r1
      r4 == IF filters.allowed_factions # <<>>
              THEN _filter_by_factions(r3, filters) ELSE r3
  IN  r4

_apply_post_filters(cards, filters) ==
  LET AboveMin(c) == c.cost >= filters.min_cost[1]
      BelowMax(c) == c.cost <= filters.max_cost[1]
      unit_types_lower == Range(LowerAll(filters.unit_types))
      HasUnitType(c) == \E i \in 1..Len(c.unit_types) :
                           Lower(c.unit_types[i]) \in unit_types_lower
      r1 == IF filters.min_cost # <<>> THEN SelectSeq(cards, AboveMin) ELSE cards
      r2 == IF filters.max_cost # <<>> THEN SelectSeq(r1, BelowMax) ELSE r1
      r3 == IF filters.unit_types # <<>> THEN SelectSeq(r2, HasUnitType) ELSE r2
      r4 == IF filters.allowed_factions # <<>>
              THEN _filter_by_factions(r3, filters) ELSE r3
  IN  r4

_browse_with_filters(all, filters, n_results) ==
  Take(_apply_post_filters(all, filters), n_results)

_simple_search_with_filters(all, query, filters, n_results) ==
  LET query_lower == Lower(query)
      Hit(card) == \/ StrIn(query_lower, Lower(card.name))
                   \/ StrIn(query_lower, Lower(card.card_text))
  IN  _apply_post_filters(SelectSeq(all, Hit), filters)

\* _apply_exclusions comparing the card's name as written
_apply_exclusions_case_sensitive(results, must_exclude) ==
  LET exclude_lower == Range(LowerAll(must_exclude))
      Keep(c) == c.name \notin exclude_lower
  IN  SelectSeq(results, Keep)

_apply_exclusions(results, must_exclude) ==
  LET exclude_lower == Range(LowerAll(must_exclude))
      Keep(c) == Lower(c.name) \notin exclude_lower
  IN  SelectSeq(results, Keep)

\* the loop of _ensure_must_include looking the required name up as written
RECURSIVE EnsureLoopRawKey(_, _, _, _, _)
EnsureLoopRawKey(results, must_include, k, result_names, by_name) ==
  IF k > Len(must_include) THEN results
  ELSE LET required_lower == Lower(must_include[k])
       IN  IF required_lower \notin result_names /\ must_include[k] \in DOMAIN by_name
             THEN EnsureLoopRawKey(<<by_name[must_include[k]]>> \o results,
                                   must_include, k + 1, result_names, by_name)
             ELSE EnsureLoopRawKey(results, must_include, k + 1, result_names, by_name)

\* the loop of _ensure_must_include over must_include[k..]; result_names is
\* computed once, before the loop
RECURSIVE EnsureLoop(_, _, _, _, _)
EnsureLoop(results, must_include, k, result_names, by_name) ==
  IF k > Len(must_include) THEN results
  ELSE LET required_lower == Lower(must_include[k])
       IN  IF required_lower \notin result_names /\ required_lower \in DOMAIN by_name
             THEN EnsureLoop(<<by_name[required_lower]>> \o results,
                             must_include, k + 1, result_names, by_name)
             ELSE EnsureLoop(results, must_include, k + 1, result_names, by_name)

_ensure_must_include(results, must_include, by_name) ==
  EnsureLoop(results, must_include, 1,
             {Lower(results[i].name) : i \in 1..Len(results)}, by_name)

\* ------------------------------------------------------------------------
\* The "eternal_cards" collection of the vector store.  setup_knowledge.py
\* stored one metadata entry per card of the sheet it indexed; the sheet has
\* lost one card ("Granite Coin") since.
\* ------------------------------------------------------------------------
Metadata(card) ==
  [name |-> card.name, type |-> card.type, rarity |-> card.rarity,
   can_access_market |-> can_access_market(card)]

Collection ==
  [i \in 1..Len(Catalog) |-> Metadata(Catalog[i])]
    \o << [name |-> "Granite Coin", type |-> "Power", rarity |-> "Common",
           can_access_market |-> FALSE] >>

\* The order of the collection by distance to the query embedding is the
\* embedding model's business: any of these orders can come back.
Rankings ==
  { <<1, 2, 3, 4, 5, 6, 7>>, <<7, 6, 5, 4, 3, 2, 1>>, <<3, 6, 1, 7, 5, 2, 4>> }

Min(a, b) == IF a < b THEN a ELSE b

\* cards_collection.query(query_embeddings, n_results = k, where): the k
\* nearest entries among those the where clause accepts.  A key the code did
\* not put in where_clause is <<>> here; "$in" lists are sequences.
ChromaQuery(ranking, k, where_clause) ==
  LET ranked == [i \in 1..Len(ranking) |-> Collection[ranking[i]]]
      Accepts(m) ==
        /\ where_clause.type # <<>> => m.type \in Range(where_clause.type)
        /\ where_clause.rarity # <<>> => m.rarity \in Range(where_clause.rarity)
        /\ where_clause.can_access_market # <<>> =>
             m.can_access_market = where_clause.can_access_market[1]
  IN  Take(SelectSeq(ranked, Accepts), k)

_semantic_search_with_filters(all, ranking, filters, n_results) ==
  LET rarities == <<"Common", "Uncommon", "Rare", "Legendary">>
      max_idx == CHOOSE i \in 1..Len(rarities) : rarities[i] = filters.max_rarity
      where_clause ==
        [type |-> filters.card_types,
         rarity |-> IF filters.max_rarity # "" THEN Take(rarities, max_idx) ELSE <<>>,
         can_access_market |-> IF filters.market_access_only THEN <<TRUE>>
                               ELSE IF ~filters.include_market THEN <<FALSE>>
                               ELSE <<>>]
      search_multiplier == IF filters.allowed_factions # <<>> THEN 3 ELSE 2
      metadatas == ChromaQuery(ranking, Min(n_results * search_multiplier, 1000),
                               where_clause)
      by_name == cards_by_name(all)
      Known(m) == Lower(m.name) \in DOMAIN by_name
      known == SelectSeq(metadatas, Known)
      cards == [i \in 1..Len(known) |-> by_name[Lower(known[i].name)]]
  IN  _apply_post_filters(cards, filters)

\* the dispatch browsing on every empty query
DispatchBrowseOnEmptyQuery(all, available, query, filters, n_results, ranking) ==
  IF query = ""
    THEN [mode |-> "browse",
          results |-> _browse_with_filters(all, filters, n_results),
          used_chromadb |-> FALSE]
  ELSE IF available /\ query # ""
    THEN [mode |-> "semantic",
          results |-> _semantic_search_with_filters(all, ranking, filters, n_results),
          used_chromadb |-> TRUE]
  ELSE [mode |-> "simple",
        results |-> _simple_search_with_filters(all, query, filters, n_results),
        used_chromadb |-> FALSE]

\* The dispatch of SearchEngine.search: the branch taken (mode), the list it
\* returns and the flag it sets.  ranking is the vector store's answer, read
\* only in the semantic branch.
Dispatch(all, available, query, filters, n_results, ranking) ==
  IF query = "" /\ filters.must_include = <<>>
    THEN [mode |-> "browse",
          results |-> _browse_with_filters(all, filters, n_results),
          used_chromadb |-> FALSE]
  ELSE IF available /\ query # ""
    THEN [mode |-> "semantic",
          results |-> _semantic_search_with_filters(all, ranking, filters, n_results),
          used_chromadb |-> TRUE]
  ELSE [mode |-> "simple",
        results |-> _simple_search_with_filters(all, query, filters, n_results),
        used_chromadb |-> FALSE]

\* list[:n_results + 1]
TruncateOffByOne(results, n_results) == Take(results, n_results + 1)

\* list[:n_results] at the end of search
Truncate(results, n_results) == Take(results, n_results)

\* search passing the list through the post filters once more after the
\* required cards were put in
search_refiltering_required(all, available, query, filters, n_results, ranking) ==
  LET branch == Dispatch(all, available, query, filters, n_results, ranking)
      ensured == IF filters.must_include # <<>>
                   THEN _apply_post_filters(
                          _ensure_must_include(branch.results, filters.must_include,
                                               cards_by_name(all)), filters)
                   ELSE branch.results
      results == IF filters.must_exclude # <<>>
                   THEN _apply_exclusions(ensured, filters.must_exclude)
                   ELSE ensured
  IN  [cards |-> Truncate(results, n_results),
       total_found |-> Len(results),
       query |-> query,
       filters_applied |-> filters,
       used_chromadb |-> branch.used_chromadb,
       n_results |-> n_results,
       mode |-> branch.mode,
       searched |-> branch.results,
       results |-> results]

\* SearchEngine.search.  Besides the fields of SearchResult the record keeps
\* three locals of the call: mode (the branch taken), searched (results as
\* the branch returned it) and results (the list that is finally truncated).
search(all, available, query, filters, n_results, ranking) ==
  LET branch == Dispatch(all, available, query, filters, n_results, ranking)
      ensured == IF filters.must_include # <<>>
                   THEN _ensure_must_include(branch.results, filters.must_include,
                                             cards_by_name(all))
                   ELSE branch.results
      results == IF filters.must_exclude # <<>>
                   THEN _apply_exclusions(ensured, filters.must_exclude)
                   ELSE ensured
  IN  [cards |-> Truncate(results, n_results),
       total_found |-> Len(results),
       query |-> query,
       filters_applied |-> filters,
       used_chromadb |-> branch.used_chromadb,
       n_results |-> n_results,
       mode |-> branch.mode,
       searched |-> branch.results,
       results |-> results]

get_card_by_name(all, name) ==
  LET by_name == cards_by_name(all)
  IN  IF Lower(name) \in DOMAIN by_name THEN <<by_name[Lower(name)]>> ELSE <<>>

\* ------------------------------------------------------------------------
\* knowledge/eternal_skills.py and knowledge/eternal_synergies.py
\* ------------------------------------------------------------------------
\* BATTLE_SKILLS and OTHER_SKILLS as <<skill, archetypes>>, in the order of
\* sorted(): get_skills_by_archetype sorts the names it collects
SKILL_ARCHETYPES ==
  << <<"Aegis", {"midrange", "control", "voltron"}>>,
     <<"Ambush", {"tempo", "control", "tricks"}>>,
     <<"Berserk", {"aggro", "midrange", "weapons"}>>,
     <<"Bond", {"tribal", "aggro", "tempo"}>>,
     <<"Charge", {"aggro", "burn", "tempo"}>>,
     <<"Deadly", {"control", "midrange", "removal"}>>,
     <<"Decay", {"control", "grind"}>>,
     <<"Destiny", {"combo", "value", "tempo"}>>,
     <<"Double Damage", {"aggro", "combo", "burn"}>>,
     <<"Echo", {"value", "combo", "control"}>>,
     <<"Endurance", {"control", "midrange"}>>,
     <<"Exalted", {"midrange", "weapons", "value"}>>,
     <<"Flying", {"aggro", "midrange", "control finishers"}>>,
     <<"Imbue", {"combo", "midrange"}>>,
     <<"Inscribe", {"control", "midrange", "3+ colors"}>>,
     <<"Killer", {"control", "removal", "midrange"}>>,
     <<"Lifesteal", {"midrange", "control", "lifegain"}>>,
     <<"Nomad", {"tempo", "midrange"}>>,
     <<"Overwhelm", {"aggro", "midrange", "finisher"}>>,
     <<"Pledge", {"aggro", "all decks"}>>,
     <<"Quickdraw", {"aggro", "midrange"}>>,
     <<"Reckless", {"aggro"}>>,
     <<"Regen", {"midrange", "control"}>>,
     <<"Revenge", {"midrange", "value", "grind"}>>,
     <<"Shift", {"control", "midrange", "tempo", "combo"}>>,
     <<"Stealth", {"tempo", "aggro", "tricks"}>>,
     <<"Swift", {"combo", "burn", "control"}>>,
     <<"Taunt", {"control", "midrange"}>>,
     <<"Unblockable", {"aggro", "combo"}>>,
     <<"Unleash", {"combo", "burn"}>>,
     <<"Valor", {"aggro", "combat"}>>,
     <<"Versatile", {"weapons", "midrange"}>>,
     <<"Voidbound", {"reanimator", "void"}>>,
     <<"Warcry", {"aggro", "midrange", "weapons"}>>,
     <<"Warp", {"control", "value"}>> >>

get_skills_by_archetype(archetype) ==
  LET archetype_lower == Lower(archetype)
      Relevant(e) == archetype_lower \in {Lower(a) : a \in e[2]}
      relevant == SelectSeq(SKILL_ARCHETYPES, Relevant)
  IN  [i \in 1..Len(relevant) |-> relevant[i][1]]

\* MECHANICAL_PACKAGES[name]["core_mechanics"]
PACKAGE_CORE_MECHANICS ==
  << <<"aggressive_burn", <<"direct damage spells", "charge units", "overwhelm">> >>,
     <<"go_wide_tokens", <<"token generation", "unit buffs", "mass pump effects">> >>,
     <<"weapons_matter", <<"weapon generation", "weapon buffs", "warcry">> >>,
     <<"void_recursion", <<"self-mill", "void interaction", "reanimation">> >>,
     <<"spell_combo", <<"spell cost reduction", "spell copying", "card draw">> >>,
     <<"ramp_fatties", <<"power acceleration", "cost reduction", "big units">> >> >>

\* keyword_mapping of get_package_for_strategy, in dict order
KEYWORD_MAPPING ==
  << <<"aggro", "aggressive_burn">>, <<"burn", "aggressive_burn">>,
     <<"tokens", "go_wide_tokens">>, <<"weapons", "weapons_matter">>,
     <<"void", "void_recursion">>, <<"graveyard", "void_recursion">>,
     <<"spell", "spell_combo">>, <<"combo", "spell_combo">>,
     <<"ramp", "ramp_fatties">>, <<"control", "ramp_fatties">> >>

\* index of the first TRUE of a sequence of booleans, 0 when there is none
FirstIndex(flags) ==
  IF \E i \in 1..Len(flags) : flags[i]
    THEN CHOOSE i \in 1..Len(flags) :
           flags[i] /\ \A j \in 1..(i - 1) : ~flags[j]
    ELSE 0

\* get_package_for_strategy(strategy).get("core_mechanics", []): the core
\* mechanics of the package of the first keyword found in the strategy
PackageCoreMechanics(strategy_name) ==
  LET strategy_lower == Lower(strategy_name)
      k == FirstIndex([i \in 1..Len(KEYWORD_MAPPING) |->
                         StrIn(KEYWORD_MAPPING[i][1], strategy_lower)])
      p == FirstIndex([i \in 1..Len(PACKAGE_CORE_MECHANICS) |->
                         k # 0 /\ PACKAGE_CORE_MECHANICS[i][1] = KEYWORD_MAPPING[k][2]])
  IN  IF k = 0 THEN <<>> ELSE PACKAGE_CORE_MECHANICS[p][2]

\* ------------------------------------------------------------------------
\* agents/strategy_scout.py: pattern tables
\* ------------------------------------------------------------------------
ARCHETYPE_PATTERNS ==
  << <<"aggro", <<"aggro", "aggressive", "fast", "rush", "burn", "face", "beatdown", "tempo">> >>,
     <<"control", <<"control", "removal", "board wipe", "slow", "grind", "defensive", "reactive">> >>,
     <<"midrange", <<"midrange", "value", "balanced", "versatile", "flexible">> >>,
     <<"combo", <<"combo", "synergy", "otk", "engine", "infinite", "loop">> >> >>

FACTION_PATTERNS ==
  << <<"Fire", <<"fire", "burn", "torch", "flame", "oni", "grenadin", "gun">> >>,
     <<"Time", <<"time", "ramp", "dinosaur", "sentinel", "sandstorm", "amber">> >>,
     <<"Justice", <<"justice", "armor", "valkyrie", "enforcer", "law", "order">> >>,
     <<"Primal", <<"primal", "spell", "wisdom", "ice", "yeti", "unseen", "lightning">> >>,
     <<"Shadow", <<"shadow", "kill", "death", "void", "reanimator", "stonescar", "umbren">> >> >>

MECHANIC_PATTERNS ==
  << <<"removal", <<"removal", "kill", "destroy", "vanquish", "harsh rule", "board wipe">> >>,
     <<"card_draw", <<"draw", "card advantage", "wisdom", "strategize", "selection">> >>,
     <<"ramp", <<"ramp", "power", "accelerate", "seek power", "influence">> >>,
     <<"burn", <<"burn", "damage", "torch", "flame blast", "direct damage">> >>,
     <<"flying", <<"flying", "flyer", "aerial", "airborne", "wings">> >>,
     <<"weapons", <<"weapon", "relic weapon", "sword", "hammer", "gun">> >>,
     <<"void", <<"void", "graveyard", "recursion", "reanimator", "death">> >>,
     <<"tribal", <<"tribal", "synergy", "lord", "matters">> >>,
     <<"sacrifice", <<"sacrifice", "sac", "combust", "devour">> >>,
     <<"lifegain", <<"lifegain", "life", "heal", "lifesteal">> >>,
     <<"market", <<"market", "merchant", "smuggler", "etchings", "bargain">> >> >>

TRIBAL_KEYWORDS == <<"valkyrie", "oni", "yeti", "grenadin", "sentinel", "dragon">>

\* any(pattern in text for pattern in patterns)
AnyPatternIn(patterns, text) == \E i \in 1..Len(patterns) : StrIn(patterns[i], text)

\* the keys of a pattern table whose patterns occur in the text, in table order
MatchingKeys(table, text) ==
  LET Matches(e) == AnyPatternIn(e[2], text)
      hits == SelectSeq(table, Matches)
  IN  [i \in 1..Len(hits) |-> hits[i][1]]

\* str.capitalize()
Capitalize(s) ==
  IF Len(s) = 0 THEN ""
  ELSE LET c == SubSeq(s, 1, 1)
           ups == {u \in DOMAIN UpperToLower : UpperToLower[u] = c}
       IN  (IF ups = {} THEN c ELSE CHOOSE u \in ups : TRUE)
             \o Lower(SubSeq(s, 2, Len(s)))

\* list.append(x) unless x is in the list
AppendIfAbsent(seq, x) == IF x \in Range(seq) THEN seq ELSE Append(seq, x)

\* for x in xs: if x not in seq: seq.append(x)
RECURSIVE ExtendIfAbsent(_, _)
ExtendIfAbsent(seq, xs) ==
  IF xs = <<>> THEN seq
  ELSE ExtendIfAbsent(AppendIfAbsent(seq, Head(xs)), Tail(xs))

\* ------------------------------------------------------------------------
\* agents/strategy_scout.py: StrategyAnalysis.  An Optional[str] that is only
\* tested by truthiness (primary_faction, tribal_focus) is "" for None.
\* ------------------------------------------------------------------------
StrategyAnalysis ==
  [archetype |-> "midrange", speed |-> "medium",
   primary_faction |-> "", secondary_factions |-> <<>>,
   key_mechanics |-> <<>>, tribal_focus |-> "",
   must_include_cards |-> <<>>,
   market_preference |-> TRUE, preferred_win_conditions |-> <<>>]

\* _detect_patterns whose archetype loop has no break: the last matching
\* archetype stays
_detect_patterns_without_break(user_input) ==
  LET input_lower == Lower(user_input)
      archetypes == MatchingKeys(ARCHETYPE_PATTERNS, input_lower)
      archetype == IF archetypes # <<>> THEN archetypes[Len(archetypes)]
                   ELSE StrategyAnalysis.archetype
      detected_factions == MatchingKeys(FACTION_PATTERNS, input_lower)
      mechanics == MatchingKeys(MECHANIC_PATTERNS, input_lower)
      IsTribe(t) == StrIn(t, input_lower)
      tribes == SelectSeq(TRIBAL_KEYWORDS, IsTribe)
  IN  [StrategyAnalysis EXCEPT
         !.archetype = archetype,
         !.primary_faction =
            IF detected_factions # <<>> THEN detected_factions[1] ELSE "",
         !.secondary_factions = SubSeq(detected_factions, 2, Min(3, Len(detected_factions))),
         !.key_mechanics =
            IF tribes # <<>> THEN AppendIfAbsent(mechanics, "tribal") ELSE mechanics,
         !.tribal_focus =
            IF tribes # <<>> THEN Capitalize(tribes[Len(tribes)]) ELSE "",
         !.speed = IF archetype = "aggro" THEN "fast"
                   ELSE IF archetype = "control" THEN "slow" ELSE "medium",
         !.market_preference =
            ~(StrIn("no market", input_lower) \/ StrIn("without market", input_lower))]

_detect_patterns(user_input) ==
  LET input_lower == Lower(user_input)
      archetypes == MatchingKeys(ARCHETYPE_PATTERNS, input_lower)
      archetype == IF archetypes # <<>> THEN archetypes[1]
                   ELSE StrategyAnalysis.archetype
      detected_factions == MatchingKeys(FACTION_PATTERNS, input_lower)
      mechanics == MatchingKeys(MECHANIC_PATTERNS, input_lower)
      IsTribe(t) == StrIn(t, input_lower)
      tribes == SelectSeq(TRIBAL_KEYWORDS, IsTribe)
  IN  [StrategyAnalysis EXCEPT
         !.archetype = archetype,
         !.primary_faction =
            IF detected_factions # <<>> THEN detected_factions[1] ELSE "",
         !.secondary_factions = SubSeq(detected_factions, 2, Min(3, Len(detected_factions))),
         !.key_mechanics =
            IF tribes # <<>> THEN AppendIfAbsent(mechanics, "tribal") ELSE mechanics,
         !.tribal_focus =
            IF tribes # <<>> THEN Capitalize(tribes[Len(tribes)]) ELSE "",
         !.speed = IF archetype = "aggro" THEN "fast"
                   ELSE IF archetype = "control" THEN "slow" ELSE "medium",
         !.market_preference =
            ~(StrIn("no market", input_lower) \/ StrIn("without market", input_lower))]

\* the outcome of "await self.run(analysis_prompt)": the call raises, or
\* returns a RunResponse with some content
RunResponse(raised, content) == [raised |-> raised, content |-> content]

\* _parse_ai_response answering with what the model said about the archetype
_parse_ai_response_reading_content(response, initial) ==
  LET said == MatchingKeys(ARCHETYPE_PATTERNS, Lower(response.content))
  IN  IF said # <<>> THEN [initial EXCEPT !.archetype = said[1]] ELSE initial

_parse_ai_response(response, initial) == initial

_analyze_strategy(user_input, response) ==
  LET initial_analysis == _detect_patterns(user_input)
  IN  IF response.raised THEN initial_analysis
      ELSE _parse_ai_response(response, initial_analysis)

_enrich_with_knowledge(strategy) ==
  LET relevant_skills ==
        IF strategy.archetype # "" THEN get_skills_by_archetype(strategy.archetype)
        ELSE <<>>
      top == Take(relevant_skills, 5)
      with_skills == ExtendIfAbsent(strategy.key_mechanics, LowerAll(top))
  IN  [strategy EXCEPT
         !.key_mechanics =
            ExtendIfAbsent(with_skills, PackageCoreMechanics(strategy.archetype))]

\* ------------------------------------------------------------------------
\* Python floats.  A float is written by its repr; FLOATS lists, in
\* increasing order, the doubles the relevance score can take, and FloatAdd
\* is IEEE-754 double addition on them (0.7 + 0.1 is 0.7999999999999999).
\* ------------------------------------------------------------------------
FLOATS ==
  <<"0.5", "0.6", "0.7", "0.7999999999999999", "0.8",
     "0.8999999999999999", "0.9", "0.9999999999999999", "1.0",
     "1.0999999999999999", "1.1", "1.2", "1.2999999999999998", "1.3",
     "1.4">>

FloatAdd(x, y) ==
  CASE x = "0.5" /\ y = "0.1" -> "0.6"
    [] x = "0.5" /\ y = "0.2" -> "0.7"
    [] x = "0.6" /\ y = "0.1" -> "0.7"
    [] x = "0.6" /\ y = "0.2" -> "0.8"
    [] x = "0.7" /\ y = "0.1" -> "0.7999999999999999"
    [] x = "0.7" /\ y = "0.2" -> "0.8999999999999999"
    [] x = "0.7999999999999999" /\ y = "0.1" -> "0.8999999999999999"
    [] x = "0.7999999999999999" /\ y = "0.2" -> "1.0"
    [] x = "0.8" /\ y = "0.1" -> "0.9"
    [] x = "0.8999999999999999" /\ y = "0.1" -> "0.9999999999999999"
    [] x = "0.8999999999999999" /\ y = "0.2" -> "1.0999999999999999"
    [] x = "0.9999999999999999" /\ y = "0.1" -> "1.0999999999999999"
    [] x = "0.9999999999999999" /\ y = "0.2" -> "1.2"
    [] x = "1.0" /\ y = "0.1" -> "1.1"
    [] x = "1.0999999999999999" /\ y = "0.1" -> "1.2"
    [] x = "1.0999999999999999" /\ y = "0.2" -> "1.2999999999999998"
    [] x = "1.2" /\ y = "0.1" -> "1.3"
    [] x = "1.2999999999999998" /\ y = "0.1" -> "1.4"

FloatRank(x) == CHOOSE i \in 1..Len(FLOATS) : FLOATS[i] = x

\* x >= y
FloatGE(x, y) == FloatRank(x) >= FloatRank(y)

\* min(x, y)
FloatMin(x, y) == IF FloatGE(x, y) THEN y ELSE x

\* ------------------------------------------------------------------------
\* agents/strategy_scout.py: queries, filters, searches and the pool
\* ------------------------------------------------------------------------
Query(query, purpose) == [query |-> query, purpose |-> purpose]

\* the closing loop keyed by the purpose of a query instead of its text
RECURSIVE UniqueQueriesByPurpose(_, _)
UniqueQueriesByPurpose(queries, seen) ==
  IF queries = <<>> THEN <<>>
  ELSE IF Head(queries).purpose \in seen
         THEN UniqueQueriesByPurpose(Tail(queries), seen)
  ELSE <<Head(queries)>>
         \o UniqueQueriesByPurpose(Tail(queries), seen \cup {Head(queries).purpose})

\* the closing loop of _create_search_queries: the first query of each text
\* is kept
RECURSIVE UniqueQueries(_, _)
UniqueQueries(queries, seen) ==
  IF queries = <<>> THEN <<>>
  ELSE IF Head(queries).query \in seen THEN UniqueQueries(Tail(queries), seen)
  ELSE <<Head(queries)>>
         \o UniqueQueries(Tail(queries), seen \cup {Head(queries).query})

_create_search_queries(strategy, original_input) ==
  LET original == <<Query(original_input, "original_input")>>
      archetype_faction ==
        IF strategy.primary_faction # ""
          THEN <<Query(strategy.archetype \o " " \o strategy.primary_faction
                         \o (IF strategy.secondary_factions # <<>>
                               THEN " " \o Join(strategy.secondary_factions)
                               ELSE ""),
                       "archetype_faction")>>
          ELSE <<>>
      top == Take(strategy.key_mechanics, 3)
      mechanics ==
        [i \in 1..Len(top) |->
           Query(IF strategy.primary_faction # ""
                   THEN top[i] \o " " \o strategy.primary_faction
                   ELSE top[i],
                 "mechanic_" \o top[i])]
      tribal ==
        IF strategy.tribal_focus # ""
          THEN <<Query(strategy.tribal_focus \o " tribal synergy", "tribal_focus")>>
          ELSE <<>>
      win_conditions ==
        [i \in 1..Len(strategy.preferred_win_conditions) |->
           Query(strategy.preferred_win_conditions[i], "win_condition")]
      core ==
        IF strategy.archetype = "aggro"
          THEN <<Query("charge haste aggressive one drop", "aggro_core")>>
        ELSE IF strategy.archetype = "control"
          THEN <<Query("board wipe removal draw", "control_core")>>
        ELSE IF strategy.archetype = "combo"
          THEN <<Query("combo piece engine", "combo_core")>>
        ELSE <<>>
  IN  UniqueQueries(original \o archetype_faction \o mechanics \o tribal
                      \o win_conditions \o core, {})

\* _create_base_filters setting the cost cap of the archetype whatever
\* max_cost the filters have
_create_base_filters_capping(strategy, additional_filters) ==
  LET filters == IF additional_filters # <<>> THEN additional_filters[1]
                 ELSE DefaultFilters
      f1 == IF filters.allowed_factions = <<>> /\ strategy.primary_faction # ""
              THEN [filters EXCEPT !.allowed_factions =
                      <<strategy.primary_faction>> \o strategy.secondary_factions]
              ELSE filters
      f2 == IF ~strategy.market_preference
              THEN [f1 EXCEPT !.include_market = FALSE] ELSE f1
      f3 == IF strategy.tribal_focus # "" /\ f2.unit_types = <<>>
              THEN [f2 EXCEPT !.unit_types = <<strategy.tribal_focus>>] ELSE f2
  IN  IF strategy.archetype = "aggro" THEN [f3 EXCEPT !.max_cost = <<5>>]
      ELSE IF strategy.archetype = "control" THEN [f3 EXCEPT !.max_cost = <<12>>]
      ELSE f3

\* additional_filters is <<>> for None and <<filters>> otherwise
_create_base_filters(strategy, additional_filters) ==
  LET filters == IF additional_filters # <<>> THEN additional_filters[1]
                 ELSE DefaultFilters
      f1 == IF filters.allowed_factions = <<>> /\ strategy.primary_faction # ""
              THEN [filters EXCEPT !.allowed_factions =
                      <<strategy.primary_faction>> \o strategy.secondary_factions]
              ELSE filters
      f2 == IF ~strategy.market_preference
              THEN [f1 EXCEPT !.include_market = FALSE] ELSE f1
      f3 == IF strategy.tribal_focus # "" /\ f2.unit_types = <<>>
              THEN [f2 EXCEPT !.unit_types = <<strategy.tribal_focus>>] ELSE f2
      f4 == IF f3.max_cost = <<>>
              THEN IF strategy.archetype = "aggro"
                     THEN [f3 EXCEPT !.max_cost = <<5>>]
                   ELSE IF strategy.archetype = "control"
                     THEN [f3 EXCEPT !.max_cost = <<12>>]
                   ELSE f3
              ELSE f3
  IN  f4

\* the card loop of _execute_searches leaving at the first card already seen
\* (break where the code goes on to the next card)
RECURSIVE AddUniqueUntilSeen(_, _)
AddUniqueUntilSeen(pool, cards) ==
  IF cards = <<>> THEN pool
  ELSE IF Head(cards).name \in pool[2] THEN pool
  ELSE AddUniqueUntilSeen(<<Append(pool[1], Head(cards)),
                            pool[2] \cup {Head(cards).name}>>, Tail(cards))

\* "for card in result.cards" of _execute_searches: pool is <<all_cards,
\* seen_cards>>
RECURSIVE AddUnique(_, _)
AddUnique(pool, cards) ==
  IF cards = <<>> THEN pool
  ELSE IF Head(cards).name \in pool[2] THEN AddUnique(pool, Tail(cards))
  ELSE AddUnique(<<Append(pool[1], Head(cards)), pool[2] \cup {Head(cards).name}>>,
                 Tail(cards))

\* "for card_name in strategy.must_include_cards" of _execute_searches
RECURSIVE AddRequired(_, _, _)
AddRequired(pool, names, all) ==
  IF names = <<>> THEN pool
  ELSE LET card == get_card_by_name(all, Head(names))
       IN  IF card # <<>> /\ card[1].name \notin pool[2]
             THEN AddRequired(<<card \o pool[1], pool[2] \cup {card[1].name}>>,
                              Tail(names), all)
             ELSE AddRequired(pool, Tail(names), all)

\* the mechanic loop of _calculate_relevance
RECURSIVE MechanicBoost(_, _, _)
MechanicBoost(score, mechanics, card_text_lower) ==
  IF mechanics = <<>> THEN score
  ELSE MechanicBoost(IF StrIn(Head(mechanics), card_text_lower)
                       THEN FloatAdd(score, "0.1") ELSE score,
                     Tail(mechanics), card_text_lower)

_calculate_relevance(card, strategy) ==
  LET card_text_lower == Lower(card.card_text)
      s1 == MechanicBoost("0.5", strategy.key_mechanics, card_text_lower)
      s2 == IF strategy.tribal_focus # ""
                 /\ strategy.tribal_focus \in Range(card.unit_types)
              THEN FloatAdd(s1, "0.2") ELSE s1
      s3 == IF strategy.archetype = "aggro" /\ card.cost <= 3
              THEN FloatAdd(s2, "0.1")
            ELSE IF strategy.archetype = "control" /\ StrIn("draw", card_text_lower)
              THEN FloatAdd(s2, "0.1")
            ELSE s2
  IN  FloatMin(s3, "1.0")

\* sorted(cards, key=lambda c: c.cost): stable
RECURSIVE SortedByCost(_)
SortedByCost(cards) ==
  IF cards = <<>> THEN <<>>
  ELSE LET rest == SortedByCost(SubSeq(cards, 1, Len(cards) - 1))
           last == cards[Len(cards)]
           NotAfter(c) == c.cost <= last.cost
           After(c) == c.cost > last.cost
       IN  SelectSeq(rest, NotAfter) \o <<last>> \o SelectSeq(rest, After)

\* the closing loop of _organize_card_pool: the first card of each name is
\* kept
RECURSIVE UniqueByName(_, _)
UniqueByName(cards, seen) ==
  IF cards = <<>> THEN <<>>
  ELSE IF Head(cards).name \in seen THEN UniqueByName(Tail(cards), seen)
  ELSE <<Head(cards)>> \o UniqueByName(Tail(cards), seen \cup {Head(cards).name})

\* _organize_card_pool joining the categories as they were filled, without
\* sorted(..., key=lambda c: c.cost)
_organize_card_pool_unsorted(cards, strategy) ==
  LET Required(c) == c.name \in Range(strategy.must_include_cards)
      Relevance(c) == _calculate_relevance(c, strategy)
      IsCore(c) == ~Required(c) /\ ~is_power(c) /\ FloatGE(Relevance(c), "0.8")
      IsSynergy(c) == /\ ~Required(c) /\ ~is_power(c)
                      /\ ~FloatGE(Relevance(c), "0.8")
                      /\ FloatGE(Relevance(c), "0.5")
      IsSupport(c) == /\ ~Required(c)
                      /\ \/ is_power(c)
                         \/ ~FloatGE(Relevance(c), "0.5")
      organized == SelectSeq(cards, Required)
                     \o SelectSeq(cards, IsCore)
                     \o SelectSeq(cards, IsSynergy)
                     \o SelectSeq(cards, IsSupport)
  IN  UniqueByName(organized, {})

_organize_card_pool(cards, strategy) ==
  LET Required(c) == c.name \in Range(strategy.must_include_cards)
      Relevance(c) == _calculate_relevance(c, strategy)
      IsCore(c) == ~Required(c) /\ ~is_power(c) /\ FloatGE(Relevance(c), "0.8")
      IsSynergy(c) == /\ ~Required(c) /\ ~is_power(c)
                      /\ ~FloatGE(Relevance(c), "0.8")
                      /\ FloatGE(Relevance(c), "0.5")
      IsSupport(c) == /\ ~Required(c)
                      /\ \/ is_power(c)
                         \/ ~FloatGE(Relevance(c), "0.5")
      organized == SelectSeq(cards, Required)
                     \o SortedByCost(SelectSeq(cards, IsCore))
                     \o SortedByCost(SelectSeq(cards, IsSynergy))
                     \o SortedByCost(SelectSeq(cards, IsSupport))
  IN  UniqueByName(organized, {})

\* the count keyed by another field of the card: len(set(c.cost for c in
\* final_pool))
UniqueCardsKeyedByCost(final_pool) ==
  Cardinality({final_pool[i].cost : i \in 1..Len(final_pool)})

\* len(set(c.name for c in final_pool))
UniqueCards(final_pool) ==
  Cardinality({final_pool[i].name : i \in 1..Len(final_pool)})

\* ------------------------------------------------------------------------
\* Inputs of a direct search call
\* ------------------------------------------------------------------------
QueryInputs == {"", "Torch", "charge"}

NResultsInputs == {0, 1, 2, MaxN}

\* <<allowed_factions, max_factions_per_card>>
FactionInputs ==
  { << <<>>, 0 >>, << <<"Fire", "Justice">>, 0 >>, << <<"Fire", "Justice">>, 1 >> }

\* <<min_cost, max_cost>>
CostInputs == { << <<>>, <<>> >>, << <<1>>, <<5>> >> }

\* <<include_market, market_access_only>>
MarketInputs == { <<TRUE, FALSE>>, <<FALSE, FALSE>>, <<TRUE, TRUE>> }

FilterInputs ==
  { SearchFilters(fa, ra, co, ct, ut, mi, me, mk) :
      fa \in FactionInputs,
      ra \in {"", "Common"},
      co \in CostInputs,
      ct \in {<<>>, <<"Unit">>},
      ut \in {<<>>, <<"oni">>},
      mi \in {<<>>, <<"torch">>, <<"Harsh Rule", "Unknown Card">>,
             <<"Icaria", "ICARIA">>},
      me \in {<<>>, <<"TORCH", "Icaria">>},
      mk \in MarketInputs }

\* the vector store answers only when it is connected and asked something
RankingInputs(available, query) ==
  IF available /\ query # "" THEN Rankings ELSE {<<1, 2, 3, 4, 5, 6, 7>>}

\* ------------------------------------------------------------------------
\* Inputs of a call analyze_and_scout(user_input, additional_filters) and
\* the answers of the language model
\* ------------------------------------------------------------------------
UserInputs ==
  {"Fire aggro with burn", "oni tribal rush", "flying deck",
   "slow control, no market", "otk loop"}

AdditionalFilterInputs ==
  { <<>>,
    <<[DefaultFilters EXCEPT !.must_include = <<"torch", "Fire Sigil">>]>>,
    <<[DefaultFilters EXCEPT !.allowed_factions = <<"Fire", "Justice">>,
                             !.max_cost = <<7>>,
                             !.must_exclude = <<"Harsh Rule">>]>>,
    <<[DefaultFilters EXCEPT !.allowed_factions = <<"Fire", "Justice">>]>>,
    <<[DefaultFilters EXCEPT !.must_include = <<"Icaria">>]>> }

Responses ==
  { RunResponse(TRUE, ""),
    RunResponse(FALSE, "{archetype: control, must_include: [Harsh Rule]}"),
    RunResponse(FALSE, "{archetype: combo}") }

\* n_results of the searches of _execute_searches
ScoutNResults == 1000

\* ------------------------------------------------------------------------
\* data/sheets_client.py.  A cell of a row of get_all_records() is a str or,
\* when the sheet cell holds a number, an int: <<"str", s>> or <<"int", n>>.
\* ------------------------------------------------------------------------
StrCell(s) == <<"str", s>>

IntCell(n) == <<"int", n>>

\* bool(cell)
Truthy(cell) == IF cell[1] = "str" THEN Len(cell[2]) > 0 ELSE cell[2] # 0

Digits == <<"0", "1", "2", "3", "4", "5", "6", "7", "8", "9">>

\* int(s) for a str of decimal digits with blanks around it, <<>> for the
\* ValueError on any other str
RECURSIVE DecimalValue(_)
DecimalValue(s) ==
  IF Len(s) = 0 THEN <<>>
  ELSE LET last == SubSeq(s, Len(s), Len(s))
           d == {i \in 1..Len(Digits) : Digits[i] = last}
           rest == DecimalValue(SubSeq(s, 1, Len(s) - 1))
       IN  IF d = {} THEN <<>>
           ELSE IF Len(s) = 1 THEN <<(CHOOSE i \in d : TRUE) - 1>>
           ELSE IF rest = <<>> THEN <<>>
           ELSE <<10 * rest[1] + (CHOOSE i \in d : TRUE) - 1>>

\* int(cell): <<n>>, or <<>> when it raises
IntOf(cell) == IF cell[1] = "int" THEN <<cell[2]>> ELSE DecimalValue(Strip(cell[2]))

Row(DeckBuildable, Name, Cost, Type, CardText) ==
  [DeckBuildable |-> DeckBuildable, Name |-> Name, Cost |-> Cost, Type |-> Type,
   CardText |-> CardText, Rarity |-> StrCell("Common"), Influence |-> StrCell("{F}")]

\* GoogleSheetsClient._parse_card_row: raised tells that an exception left
\* the method; card is <<>> for None
_parse_card_row(row) ==
  IF row.DeckBuildable[1] # "str" THEN [raised |-> TRUE, card |-> <<>>]
  ELSE IF Upper(row.DeckBuildable[2]) # "TRUE" THEN [raised |-> FALSE, card |-> <<>>]
  ELSE IF ~Truthy(row.Name) THEN [raised |-> FALSE, card |-> <<>>]
  ELSE IF \/ row.Name[1] # "str"
          \/ IntOf(row.Cost) = <<>>
          \/ row.Type[1] # "str"
          \/ row.CardText[1] # "str"
          \/ row.Rarity[1] # "str"
          \/ row.Influence[1] # "str"
    THEN [raised |-> FALSE, card |-> <<>>]
  ELSE [raised |-> FALSE,
        card |-> <<Card(Strip(row.Name[2]), IntOf(row.Cost)[1],
                        Strip(row.Influence[2]), Strip(row.Type[2]),
                        Strip(row.CardText[2]), Strip(row.Rarity[2]), <<>>)>>]

\* the row loop of _load_all_cards: an exception of _parse_card_row ends it
RECURSIVE LoadRows(_, _)
LoadRows(cards_cache, rows) ==
  IF rows = <<>> THEN [raised |-> FALSE, cards_cache |-> cards_cache]
  ELSE LET parsed == _parse_card_row(Head(rows))
       IN  IF parsed.raised THEN [raised |-> TRUE, cards_cache |-> cards_cache]
           ELSE LoadRows(cards_cache \o parsed.card, Tail(rows))

\* GoogleSheetsClient.__init__; loads, fetches and successes count the calls
\* of _load_all_cards, the answers of get_all_records and the loads that
\* returned True
GoogleSheetsClient ==
  [_sheet |-> FALSE, _cards_cache |-> <<>>, _cache_loaded |-> FALSE,
   loads |-> 0, fetches |-> 0, successes |-> 0, fetched |-> <<>>,
   loaded |-> <<>>]

\* GoogleSheetsClient._load_all_cards.  env is what the outside does during
\* the call: connect() succeeds or not, get_all_records() answers rows or
\* raises.  fetched keeps the rows of the last answer and loaded the cache as
\* the last successful load left it.
_load_all_cards(client, env) ==
  LET connected == client._sheet \/ env.connect_ok
      counted == [client EXCEPT !.loads = @ + 1, !._sheet = connected]
      done == LoadRows(client._cards_cache, env.rows)
  IN  IF ~connected THEN counted
      ELSE IF ~env.fetch_ok THEN counted
      ELSE IF done.raised
        THEN [counted EXCEPT !.fetches = @ + 1, !.fetched = <<env.rows>>,
                             !._cards_cache = done.cards_cache]
      ELSE [counted EXCEPT !.fetches = @ + 1, !.fetched = <<env.rows>>,
                           !._cards_cache = done.cards_cache,
                           !._cache_loaded = TRUE,
                           !.successes = @ + 1,
                           !.loaded = <<done.cards_cache>>]

\* "if not self._cache_loaded: self._load_all_cards()"
EnsureLoaded(client, env) ==
  IF ~client._cache_loaded THEN _load_all_cards(client, env) ELSE client

\* search_cards(name=name): the cache itself when name is None ("")
search_cards(client, name) ==
  LET Matches(c) == StrIn(Lower(name), Lower(c.name))
  IN  IF name # "" THEN SelectSeq(client._cards_cache, Matches)
      ELSE client._cards_cache

\* GoogleSheetsClient.get_card_by_name: <<>> for None
get_card_by_name_in_sheet(client, name) ==
  LET Named(c) == Lower(c.name) = Lower(name)
  IN  Take(SelectSeq(client._cards_cache, Named), 1)

get_market_access_cards(client) == SelectSeq(client._cards_cache, can_access_market)

\* the sheets a fetch can answer: rows that load, a row that is not deck
\* buildable, rows without a name or with a cost that is no number, and
\* number cells where the code expects text
SheetInputs ==
  LET torch == Row(StrCell("TRUE"), StrCell("Torch"), IntCell(1), StrCell("Spell"),
                   StrCell("Deal 3 <b>damage</b>"))
      merchant == Row(StrCell("true"), StrCell(" Merchant "), IntCell(3), StrCell("Unit"),
                      StrCell("Play a card from your market"))
  IN  { <<torch, merchant>>,
        <<torch, Row(StrCell("FALSE"), StrCell("Token"), IntCell(0), StrCell("Unit"),
                     StrCell("")), merchant>>,
        <<torch, Row(StrCell("TRUE"), StrCell(""), IntCell(2), StrCell("Unit"),
                     StrCell("")), merchant>>,
        <<torch, Row(StrCell("TRUE"), StrCell("Broken"), StrCell("X"), StrCell("Unit"),
                     StrCell("")), merchant>>,
        <<torch, Row(StrCell("TRUE"), IntCell(1984), IntCell(2), StrCell("Unit"),
                     StrCell("")), merchant>>,
        <<torch, Row(IntCell(1), StrCell("Numbered"), IntCell(2), StrCell("Unit"),
                     StrCell("")), merchant>> }

\* what the outside does during a call that may load
EnvInputs ==
  [connect_ok : BOOLEAN, fetch_ok : BOOLEAN, rows : SheetInputs]

\* calls of _load_all_cards a client is followed for
MaxLoads == 2

\* ------------------------------------------------------------------------
\* app.py: the quantity selector of the card table
\* ------------------------------------------------------------------------
SigilMaxCopies == 99

OtherMaxCopies == 4

QuickAddCopies == 4

\* max_copies = 99 if card and card.is_sigil else 4; card is <<>> for None
max_copies(card) ==
  IF card # <<>> /\ is_sigil(card[1]) THEN SigilMaxCopies ELSE OtherMaxCopies

\* next((c for c in result.card_pool if c.name == card_name), None)
PoolCard(card_pool, card_name) ==
  LET Named(c) == c.name = card_name
  IN  Take(SelectSeq(card_pool, Named), 1)

\* card_quantities[card_name] = qty
SetQuantity(card_quantities, card_name, qty) ==
  [n \in DOMAIN card_quantities \cup {card_name} |->
     IF n = card_name THEN qty ELSE card_quantities[n]]

\* del card_quantities[card_name]
DelQuantity(card_quantities, card_name) ==
  [n \in DOMAIN card_quantities \ {card_name} |-> card_quantities[n]]

\* the card pool on display and the quantities a user picks or passes to
\* DeckCard
DeckPool == <<Catalog[1], Catalog[4], Catalog[5]>>

QuantityInputs == {0, 1, 4, 5, 99}

\* ------------------------------------------------------------------------
\* Inputs of Card(name=..., type=..., card_text=...)
\* ------------------------------------------------------------------------
CardNameInputs == {"Fire Sigil", "SIGIL OF WAR", "Sigil Trader", "Torch"}

CardTypeInputs == {"Power", "POWER", "Unit", "unit", "Spell", "Weapon"}

CardTextInputs ==
  {"", "<i>Deal 3 damage</i>", "Play a card from <b>your market</b>",
   "Swap with a card in your<br>  Market", "Draw from your<br>market",
   "<b>Your</b>   market < 5 cards"}

\* ------------------------------------------------------------------------
\* Inputs of a direct call _organize_card_pool(cards, strategy)
\* ------------------------------------------------------------------------
OrganizeLen == 4

\* lists of OrganizeLen different cards of the catalog in any order, the whole
\* catalog in both directions, and a list naming a card twice
CardListInputs ==
  { [i \in 1..OrganizeLen |-> Catalog[p[i]]] :
      p \in { q \in [1..OrganizeLen -> 1..Len(Catalog)] :
                \A i, j \in 1..OrganizeLen : i # j => q[i] # q[j] } }
    \cup { Catalog,
           [i \in 1..Len(Catalog) |-> Catalog[Len(Catalog) + 1 - i]],
           Catalog \o <<Catalog[1]>> }

\* StrategyAnalysis.must_include_cards
MustIncludeCardsInputs == { <<>>, <<"Icaria">>, <<"Fire Sigil", "Torch">> }

StrategyInputs ==
  { [_enrich_with_knowledge(_detect_patterns(user_input))
       EXCEPT !.must_include_cards = must_include_cards] :
      user_input \in UserInputs, must_include_cards \in MustIncludeCardsInputs }

\* ------------------------------------------------------------------------
\* Inputs of direct calls of _detect_patterns, _create_search_queries and
\* _create_base_filters
\* ------------------------------------------------------------------------
PatternInputs ==
  {"", "Fire aggro with burn", "slow CONTROL after a fast start",
   "value engine", "otk loop", "flying", "fire time justice primal shadow",
   "Valkyrie and Oni tribal", "time ramp into dragons",
   "No Market removal pile", "slow time sentinel control"}

\* StrategyAnalysis.preferred_win_conditions
WinConditionInputs == { <<>>, <<"flying", "big finisher", "flying">> }

\* the strategies analyze_and_scout builds from the inputs, and the same
\* with win conditions set
QueryStrategyInputs ==
  { [_enrich_with_knowledge(_detect_patterns(user_input))
       EXCEPT !.preferred_win_conditions = preferred_win_conditions] :
      user_input \in PatternInputs,
      preferred_win_conditions \in WinConditionInputs }
    \cup { _detect_patterns(user_input) : user_input \in PatternInputs }

BaseFilterInputs ==
  { <<>>,
    <<DefaultFilters>>,
    <<[DefaultFilters EXCEPT !.allowed_factions = <<"Shadow">>]>>,
    <<[DefaultFilters EXCEPT !.unit_types = <<"Dragon">>]>>,
    <<[DefaultFilters EXCEPT !.max_cost = <<0>>]>>,
    <<[DefaultFilters EXCEPT !.max_cost = <<7>>, !.include_market = FALSE]>>,
    <<[DefaultFilters EXCEPT !.allowed_factions = <<"Fire", "Justice">>,
                             !.unit_types = <<"Oni">>,
                             !.max_cost = <<3>>,
                             !.must_exclude = <<"Harsh Rule">>]>> }

\* ------------------------------------------------------------------------
\* rag/setup_knowledge.py: CheckpointManager, KnowledgeBaseSetup
\* ------------------------------------------------------------------------
\* number of cards sheets_client.get_all_cards() hands to the setup
NumCards == 3

\* KnowledgeBaseSetup.batch_size: 100 in the source, 2 here so that NumCards
\* cards make more than one batch
batch_size == 2

\* @retry(stop=stop_after_attempt(3), ...) of _setup_cards_collection
stop_after_attempt == 3

\* number of runs of setup_all_collections followed
MaxRuns == 3

\* all_cards of _setup_cards_collection, each card by its id: the id is
\* hashlib.md5(card.name.encode()).hexdigest(), one id per name
SetupCards == [k \in 1..NumCards |-> Catalog[k].name]

\* skill_ids of _setup_mechanics_collection: one id per skill, skill
\* synergy, detailed synergy and package of the knowledge tables
MechanicsIds == <<"skill_Flying", "skillsyn_Charge_Warcry", "package_Burn">>

CollectionNames == <<"eternal_cards", "eternal_mechanics", "discovered_synergies">>

\* the dict kept in data/chromadb/.setup_progress; <<>> is a key the dict
\* does not have ("status" absent is ""); "eternal_cards_total" and
\* "timestamp" are written and never read
CheckpointDict(status, processed, cards_complete, mechanics_complete, discoveries_complete) ==
  [status |-> status, eternal_cards_processed |-> processed,
   eternal_cards_complete |-> cards_complete,
   eternal_mechanics_complete |-> mechanics_complete,
   discovered_synergies_complete |-> discoveries_complete]

\* a collection a run has come to: processed, or returned from at once
Handled(collection_name, processed) ==
  [collection_name |-> collection_name, processed |-> processed]

\* checkpoint_data and checkpoint_data.get(f"{collection_name}_complete")
IsCompleteWhenFlagPresent(checkpoint_data, collection_name) ==
  /\ checkpoint_data # <<>>
  /\ checkpoint_data[1][collection_name \o "_complete"] # <<>>

IsComplete(checkpoint_data, collection_name) ==
  /\ checkpoint_data # <<>>
  /\ checkpoint_data[1][collection_name \o "_complete"] = <<TRUE>>

\* checkpoint_data.get("eternal_cards_processed", 0) if checkpoint_data else 0
StartIdx(checkpoint_data) ==
  IF checkpoint_data # <<>> /\ checkpoint_data[1].eternal_cards_processed # <<>>
  THEN checkpoint_data[1].eternal_cards_processed[1]
  ELSE 0

\* all_cards[i:i + self.batch_size], as the positions of the cards
BatchAt(i) == { k \in 1..NumCards : i < k /\ k <= i + batch_size }

\* what a file holds while json.dump is writing it, or after a write that
\* was cut short: a prefix of the JSON text, which json.load rejects
Truncated == [truncated |-> TRUE]

\* CheckpointManager.load: None when the file does not exist or json.load
\* raises, else the dict
load(checkpoint_file) ==
  IF checkpoint_file = <<>> THEN <<>>
  ELSE IF checkpoint_file[1] = Truncated THEN <<>>
  ELSE checkpoint_file

\* a save that opens the checkpoint itself for writing
OpenForWriteInPlace(files) ==
  [files EXCEPT !.checkpoint_file = <<Truncated>>, !.writing = TRUE]

\* CheckpointManager.save up to the middle of json.dump:
\* open(temp_path, 'w') and the first part of the text
OpenForWrite(files) ==
  [files EXCEPT !.temp_file = <<Truncated>>, !.writing = TRUE]

\* checkpoint_final = self.checkpoint.load() or {};
\* checkpoint_final[f"{collection_name}_complete"] = True
MarkComplete(checkpoint_file, collection_name) ==
  LET checkpoint_final == IF load(checkpoint_file) = <<>>
                          THEN CheckpointDict("", <<>>, <<>>, <<>>, <<>>)
                          ELSE load(checkpoint_file)[1]
  IN  << [checkpoint_final EXCEPT ![collection_name \o "_complete"] = <<TRUE>>] >>

\* chroma_client.create_collection(name), and get_collection(name) when the
\* collection exists: <<>> is no collection, <<items>> a collection
CreateOrGetCollection(chroma, name) ==
  IF chroma[name] = <<>> THEN [chroma EXCEPT ![name] = << <<>> >>] ELSE chroma

\* collection.add(ids=ids, ...): the store is keyed by id and keeps the
\* record it has for an id that is added again
CollectionAddKeepingAll(chroma, name, ids) ==
  [chroma EXCEPT ![name] = << @[1] \o ids >>]

CollectionAdd(chroma, name, ids) ==
  LET items == chroma[name][1]
  IN  [chroma EXCEPT ![name] =
         << items \o SelectSeq(ids, LAMBDA id : id \notin Range(items)) >>]

\* ------------------------------------------------------------------------
\* State
\* ------------------------------------------------------------------------
\* SearchEngine.all_cards
VARIABLE all_cards
\* SearchEngine.chromadb_available
VARIABLE chromadb_available
\* position of a caller of search: "idle" or "returned"
VARIABLE call
\* the SearchResult the last search call returned
VARIABLE result
\* a call of StrategyScoutAgent.analyze_and_scout: its position (pc), its
\* arguments, its locals and, once it is done, the ScoutResult (out)
VARIABLE scout
\* a direct call of StrategyScoutAgent._organize_card_pool: its position
\* ("idle" or "returned"), its arguments and the list it returned (pool)
VARIABLE organize
\* a Card being constructed and read: position ("idle" or "built"), the
\* card_text given, the Card and the values of its computed fields
VARIABLE built
\* the deck being assembled: st.session_state.card_quantities and the
\* outcome of the last DeckCard(card=..., quantity=...), <<>> before any
VARIABLE deck
\* data/sheets_client.py: _client_instance (<<>> for None), the number of
\* GoogleSheetsClient() constructions, the list the last call returned,
\* whether that list is the cache list itself, and whether the caller has
\* changed the cache through such a list
VARIABLE sheets
\* rag/setup_knowledge.py over its runs: the checkpoint file, the vector
\* store, the position of the run in progress with its locals, and what
\* the runs have done so far (handled: the collections the run in progress
\* has come to; add_calls: collection.add calls per card; unsaved: runs
\* ended between a card's add and its checkpoint; first_pass: no run has
\* started after a completed one; run_adds: collection.add calls per card in
\* the run in progress; temp_file: the .tmp file beside the checkpoint;
\* writing: a save has opened its file and not yet replaced the checkpoint)
VARIABLE setup
\* a direct call of one of _detect_patterns, _create_search_queries and
\* _create_base_filters: which one returned (pc), its arguments and what
\* it returned
VARIABLE strategist
\* app.py: st.session_state (scout_result, <<>> for None; card_quantities;
\* analyzing), the position of the script run in progress ("idle" between
\* runs, "analyzing" inside analyze_and_scout), the disabled state the
\* Analyze button was last drawn with, the analyses started, and whether
\* the last step stored a scout result
VARIABLE session

vars == <<all_cards, chromadb_available, call, result, scout, organize, built, deck, sheets, setup, strategist, session>>

NoResult == [cards |-> <<>>, total_found |-> 0, query |-> "",
             filters_applied |-> DefaultFilters, used_chromadb |-> FALSE,
             n_results |-> 0, mode |-> "none", searched |-> <<>>,
             results |-> <<>>]

ScoutResult(strategy, card_pool, pool_size, search_metadata) ==
  [strategy |-> strategy, card_pool |-> card_pool, pool_size |-> pool_size,
   search_metadata |-> search_metadata]

NoScoutResult ==
  ScoutResult(StrategyAnalysis, <<>>, 0,
              [queries_executed |-> 0, filters_applied |-> <<>>,
               user_input |-> "", unique_cards |-> 0])

ScoutIdle ==
  [pc |-> "idle", user_input |-> "", additional_filters |-> <<>>,
   response |-> RunResponse(FALSE, ""), analysis |-> StrategyAnalysis,
   strategy |-> StrategyAnalysis, search_queries |-> <<>>,
   base_filters |-> DefaultFilters, all_cards |-> <<>>, seen_cards |-> {},
   executed |-> <<>>, out |-> NoScoutResult]

NoSheets ==
  [_client_instance |-> <<>>, created |-> 0, returned |-> <<>>,
   returned_is_cache |-> FALSE, cache_changed_by_caller |-> FALSE]

NoSetup ==
  [pc |-> "idle", checkpoint_file |-> <<>>,
   chroma |-> [name \in Range(CollectionNames) |-> <<>>],
   checkpoint_data |-> <<>>, i |-> 0, batch_added |-> FALSE, attempt |-> 1,
   runs |-> 0, completions |-> 0, first_pass |-> TRUE,
   add_calls |-> [k \in 1..NumCards |-> 0],
   unsaved |-> [k \in 1..NumCards |-> 0], retries |-> 0,
   handled |-> <<>>, run_adds |-> [k \in 1..NumCards |-> 0],
   temp_file |-> <<>>, writing |-> FALSE]

StrategistIdle ==
  [pc |-> "idle", user_input |-> "", strategy |-> StrategyAnalysis,
   additional_filters |-> <<>>, analysis |-> StrategyAnalysis,
   search_queries |-> <<>>, base_filters |-> DefaultFilters]

NoDeck == [card_quantities |-> <<>>, deck_card |-> <<>>]

\* app.py 63-68 and the first draw of the page
NewSession ==
  [scout_result |-> <<>>, card_quantities |-> <<>>, analyzing |-> FALSE,
   pc |-> "idle", button_disabled |-> FALSE, analyses |-> 0,
   just_stored |-> FALSE]

NoCard ==
  [pc |-> "idle", raw_text |-> "",
   card |-> Card("", 0, "", "", "", "Common", <<>>),
   computed |-> [is_power |-> FALSE, is_unit |-> FALSE, is_spell |-> FALSE,
                 is_sigil |-> FALSE, can_access_market |-> FALSE]]

OrganizeIdle ==
  [pc |-> "idle", cards |-> <<>>, strategy |-> StrategyAnalysis, pool |-> <<>>]

\* SearchEngine.__init__: the vector store connects or fails to, and the
\* card cache is loaded
Init ==
  /\ all_cards = Catalog
  /\ chromadb_available \in BOOLEAN
  /\ call = "idle"
  /\ result = NoResult
  /\ scout = ScoutIdle
  /\ organize = OrganizeIdle
  /\ built = NoCard
  /\ deck = NoDeck
  /\ sheets = NoSheets
  /\ setup = NoSetup
  /\ strategist = StrategistIdle
  /\ session = NewSession

\* a call engine.search(query, filters, n_results)
Search ==
  /\ call = "idle"
  /\ \E query \in QueryInputs, filters \in FilterInputs,
        n_results \in NResultsInputs :
     \E ranking \in RankingInputs(chromadb_available, query) :
       result' = search(all_cards, chromadb_available, query, filters,
                        n_results, ranking)
  /\ call' = "returned"
  /\ UNCHANGED <<all_cards, chromadb_available, scout, organize, built, deck, sheets, setup, strategist, session>>

\* the caller is done with the SearchResult
Release ==
  /\ call = "returned"
  /\ call' = "idle"
  /\ result' = NoResult
  /\ UNCHANGED <<all_cards, chromadb_available, scout, organize, built, deck, sheets, setup, strategist, session>>

Next == Search \/ Release

Spec == Init /\ [][Next]_vars

\* analyze_and_scout is called and runs up to "await self.run(...)"
ScoutCall ==
  /\ scout.pc = "idle"
  /\ \E user_input \in UserInputs, additional_filters \in AdditionalFilterInputs :
       scout' = [ScoutIdle EXCEPT !.pc = "awaiting_llm",
                                  !.user_input = user_input,
                                  !.additional_filters = additional_filters]
  /\ UNCHANGED <<all_cards, chromadb_available, call, result, organize, built, deck, sheets, setup, strategist, session>>

\* the language model answers or fails; analyze_and_scout goes on to the
\* first search: steps 1 to 3 and the base filters of step 4
ScoutAnalyze ==
  /\ scout.pc = "awaiting_llm"
  /\ \E response \in Responses :
       LET analysis == _analyze_strategy(scout.user_input, response)
           strategy == _enrich_with_knowledge(analysis)
       IN  scout' = [scout EXCEPT
                       !.pc = "searching",
                       !.response = response,
                       !.analysis = analysis,
                       !.strategy = strategy,
                       !.search_queries =
                          _create_search_queries(strategy, scout.user_input),
                       !.base_filters =
                          _create_base_filters(strategy, scout.additional_filters)]
  /\ UNCHANGED <<all_cards, chromadb_available, call, result, organize, built, deck, sheets, setup, strategist, session>>

\* the body of the query loop of _execute_searches once search has returned
\* result: the cards not seen yet are added to all_cards
AddResult(locals, query, found) ==
  LET pool == AddUnique(<<locals.all_cards, locals.seen_cards>>, found.cards)
  IN  [locals EXCEPT !.all_cards = pool[1],
                     !.seen_cards = pool[2],
                     !.executed = Append(@, [query |-> query,
                                             filters |-> found.filters_applied,
                                             cards |-> found.cards])]

\* one turn of the query loop of _execute_searches
ScoutSearch ==
  /\ scout.pc = "searching"
  /\ Len(scout.executed) < Len(scout.search_queries)
  /\ LET query == scout.search_queries[Len(scout.executed) + 1].query
     IN  \E ranking \in RankingInputs(chromadb_available, query) :
           scout' = AddResult(scout, query,
                              search(all_cards, chromadb_available, query,
                                     scout.base_filters, ScoutNResults, ranking))
  /\ UNCHANGED <<all_cards, chromadb_available, call, result, organize, built, deck, sheets, setup, strategist, session>>

\* the rest of analyze_and_scout: the required cards of the strategy, the
\* organized pool and the ScoutResult
ScoutReturn ==
  /\ scout.pc = "searching"
  /\ Len(scout.executed) = Len(scout.search_queries)
  /\ LET pool == AddRequired(<<scout.all_cards, scout.seen_cards>>,
                             scout.strategy.must_include_cards, all_cards)
         final_pool == _organize_card_pool(pool[1], scout.strategy)
     IN  scout' = [scout EXCEPT
                     !.pc = "done",
                     !.all_cards = pool[1],
                     !.seen_cards = pool[2],
                     !.out = ScoutResult(
                        scout.strategy, final_pool, Len(final_pool),
                        [queries_executed |-> Len(scout.search_queries),
                         filters_applied |->
                            IF scout.additional_filters # <<>>
                              THEN <<scout.base_filters>> ELSE <<>>,
                         user_input |-> scout.user_input,
                         unique_cards |-> UniqueCards(final_pool)])]
  /\ UNCHANGED <<all_cards, chromadb_available, call, result, organize, built, deck, sheets, setup, strategist, session>>

\* the caller is done with the ScoutResult
ScoutRelease ==
  /\ scout.pc = "done"
  /\ scout' = ScoutIdle
  /\ UNCHANGED <<all_cards, chromadb_available, call, result, organize, built, deck, sheets, setup, strategist, session>>

NextScout == ScoutCall \/ ScoutAnalyze \/ ScoutSearch \/ ScoutReturn \/ ScoutRelease

SpecScout == Init /\ [][NextScout]_vars

\* a call self._organize_card_pool(cards, strategy)
Organize ==
  /\ organize.pc = "idle"
  /\ \E cards \in CardListInputs, strategy \in StrategyInputs :
       organize' = [pc |-> "returned", cards |-> cards, strategy |-> strategy,
                    pool |-> _organize_card_pool(cards, strategy)]
  /\ UNCHANGED <<all_cards, chromadb_available, call, result, scout, built, deck, sheets, setup, strategist, session>>

\* the caller is done with the list
OrganizeRelease ==
  /\ organize.pc = "returned"
  /\ organize' = OrganizeIdle
  /\ UNCHANGED <<all_cards, chromadb_available, call, result, scout, built, deck, sheets, setup, strategist, session>>

NextOrganize == Organize \/ OrganizeRelease

SpecOrganize == Init /\ [][NextOrganize]_vars

\* Card(name=..., type=..., card_text=...) is constructed and its computed
\* fields are read
NewCard ==
  /\ built.pc = "idle"
  /\ \E name \in CardNameInputs, type \in CardTypeInputs,
        card_text \in CardTextInputs :
       LET card == Card(name, 0, "", type, card_text, "Common", <<>>)
       IN  built' = [pc |-> "built", raw_text |-> card_text, card |-> card,
                     computed |-> [is_power |-> is_power(card),
                                   is_unit |-> is_unit(card),
                                   is_spell |-> is_spell(card),
                                   is_sigil |-> is_sigil(card),
                                   can_access_market |-> can_access_market(card)]]
  /\ UNCHANGED <<all_cards, chromadb_available, call, result, scout, organize, deck, sheets, setup, strategist, session>>

\* the Card is dropped
DropCard ==
  /\ built.pc = "built"
  /\ built' = NoCard
  /\ UNCHANGED <<all_cards, chromadb_available, call, result, scout, organize, deck, sheets, setup, strategist, session>>

NextCard == NewCard \/ DropCard

SpecCard == Init /\ [][NextCard]_vars

\* the quantity selectbox of one row of the card table gets a value
SelectQuantity ==
  /\ \E i \in 1..Len(DeckPool) :
       LET card_name == DeckPool[i].name
           card == PoolCard(DeckPool, card_name)
       IN  \E new_qty \in QuantityInputs \cap (0..max_copies(card)) :
             deck' = [deck EXCEPT !.card_quantities =
                        IF new_qty > 0 THEN SetQuantity(@, card_name, new_qty)
                        ELSE IF card_name \in DOMAIN @ THEN DelQuantity(@, card_name)
                        ELSE @]
  /\ UNCHANGED <<all_cards, chromadb_available, call, result, scout, organize, built, sheets, setup, strategist, session>>

\* the "4x" button of one row
QuickAdd ==
  /\ \E i \in 1..Len(DeckPool) :
       deck' = [deck EXCEPT !.card_quantities =
                  SetQuantity(@, DeckPool[i].name, QuickAddCopies)]
  /\ UNCHANGED <<all_cards, chromadb_available, call, result, scout, organize, built, sheets, setup, strategist, session>>

\* "Limpar Selecao", or a new analysis
ClearQuantities ==
  /\ deck.card_quantities # <<>>
  /\ deck' = [deck EXCEPT !.card_quantities = <<>>]
  /\ UNCHANGED <<all_cards, chromadb_available, call, result, scout, organize, built, sheets, setup, strategist, session>>

\* DeckCard(card=card, quantity=quantity) is constructed
NewDeckCard ==
  /\ \E i \in 1..Len(DeckPool), quantity \in QuantityInputs :
       deck' = [deck EXCEPT !.deck_card = <<DeckCard(DeckPool[i], quantity)>>]
  /\ UNCHANGED <<all_cards, chromadb_available, call, result, scout, organize, built, sheets, setup, strategist, session>>

NextDeck == SelectQuantity \/ QuickAdd \/ ClearQuantities \/ NewDeckCard

SpecDeck == Init /\ [][NextDeck]_vars

\* ------------------------------------------------------------------------
\* app.py: the page over the script runs of one browser session
\* ------------------------------------------------------------------------
MaxAnalyses == 3

\* what the strategy text area holds when Analyze is clicked
StrategyTextInputs == {"", "Fire aggro with burn"}

\* the card pools analyze_and_scout returns
PoolInputs == { <<Catalog[1], Catalog[4]>>, <<Catalog[3]>> }

\* the Analyze button is clicked, which the page allows when the button
\* was drawn enabled: the script runs again, draws the button, and with a
\* strategy text sets analyzing and enters analyze_and_scout
AnalyzeStart ==
  /\ session.pc = "idle"
  /\ ~session.button_disabled
  /\ session.analyses < MaxAnalyses
  /\ \E strategy_input \in StrategyTextInputs :
       session' =
         IF strategy_input = ""
         THEN [session EXCEPT !.button_disabled = session.analyzing,
                              !.just_stored = FALSE]
         ELSE [session EXCEPT !.button_disabled = session.analyzing,
                              !.analyzing = TRUE,
                              !.pc = "analyzing",
                              !.analyses = @ + 1,
                              !.just_stored = FALSE]
  /\ UNCHANGED <<all_cards, chromadb_available, call, result, scout, organize, built, deck, sheets, setup, strategist>>

\* analyze_and_scout returns: the result is stored, analyzing is reset and
\* the quantities are emptied
AnalyzeReturn ==
  /\ session.pc = "analyzing"
  /\ \E card_pool \in PoolInputs :
       session' = [session EXCEPT !.scout_result = <<[card_pool |-> card_pool]>>,
                                  !.analyzing = FALSE,
                                  !.card_quantities = <<>>,
                                  !.pc = "idle",
                                  !.just_stored = TRUE]
  /\ UNCHANGED <<all_cards, chromadb_available, call, result, scout, organize, built, deck, sheets, setup, strategist>>

\* SearchFilters(...) or analyze_and_scout raises: the script run ends at the
\* exception and the session state stays as it is
AnalyzeRaise ==
  /\ session.pc = "analyzing"
  /\ session' = [session EXCEPT !.pc = "idle", !.just_stored = FALSE]
  /\ UNCHANGED <<all_cards, chromadb_available, call, result, scout, organize, built, deck, sheets, setup, strategist>>

\* a quantity selectbox of the card table gets a value and the script runs
\* again
PickQuantity ==
  /\ session.pc = "idle"
  /\ session.scout_result # <<>>
  /\ LET card_pool == session.scout_result[1].card_pool
     IN  \E i \in 1..Len(card_pool) :
           LET card_name == card_pool[i].name
           IN  \E new_qty \in QuantityInputs
                               \cap (0..max_copies(PoolCard(card_pool, card_name))) :
                 session' = [session EXCEPT
                    !.card_quantities =
                       IF new_qty > 0 THEN SetQuantity(@, card_name, new_qty)
                       ELSE IF card_name \in DOMAIN @ THEN DelQuantity(@, card_name)
                       ELSE @,
                    !.button_disabled = session.analyzing,
                    !.just_stored = FALSE]
  /\ UNCHANGED <<all_cards, chromadb_available, call, result, scout, organize, built, deck, sheets, setup, strategist>>

\* "Limpar Selecao"
ClearSelection ==
  /\ session.pc = "idle"
  /\ session.scout_result # <<>>
  /\ session' = [session EXCEPT !.card_quantities = <<>>,
                                !.button_disabled = session.analyzing,
                                !.just_stored = FALSE]
  /\ UNCHANGED <<all_cards, chromadb_available, call, result, scout, organize, built, deck, sheets, setup, strategist>>

\* any other widget is used: the script runs again and draws the button
Rerun ==
  /\ session.pc = "idle"
  /\ session' = [session EXCEPT !.button_disabled = session.analyzing,
                                !.just_stored = FALSE]
  /\ UNCHANGED <<all_cards, chromadb_available, call, result, scout, organize, built, deck, sheets, setup, strategist>>

NextUI ==
  \/ AnalyzeStart \/ AnalyzeReturn \/ AnalyzeRaise \/ PickQuantity
  \/ ClearSelection \/ Rerun

SpecUI == Init /\ [][NextUI]_vars

\* get_sheets_client()
GetSheetsClient ==
  /\ sheets' = IF sheets._client_instance = <<>>
                 THEN [sheets EXCEPT !._client_instance = <<GoogleSheetsClient>>,
                                     !.created = @ + 1]
                 ELSE sheets
  /\ UNCHANGED <<all_cards, chromadb_available, call, result, scout, organize, built, deck, setup, strategist, session>>

\* the client may be called: it exists, and a call that would load is within
\* MaxLoads
MayCall ==
  /\ sheets._client_instance # <<>>
  /\ \/ sheets._client_instance[1]._cache_loaded
     \/ sheets._client_instance[1].loads < MaxLoads

\* the state after a call that left the client as `client` and returned
\* `returned`
Returned(client, returned, returned_is_cache) ==
  [sheets EXCEPT !._client_instance = <<client>>,
                 !.returned = returned,
                 !.returned_is_cache = returned_is_cache]

\* client.get_all_cards(): a copy of the cache
GetAllCards ==
  /\ MayCall
  /\ \E env \in EnvInputs :
       sheets' = Returned(EnsureLoaded(sheets._client_instance[1], env),
                          EnsureLoaded(sheets._client_instance[1], env)._cards_cache,
                          FALSE)
  /\ UNCHANGED <<all_cards, chromadb_available, call, result, scout, organize, built, deck, setup, strategist, session>>

\* client.search_cards(name=name)
SearchCards ==
  /\ MayCall
  /\ \E env \in EnvInputs, name \in {"", "torch"} :
       sheets' = Returned(EnsureLoaded(sheets._client_instance[1], env),
                          search_cards(EnsureLoaded(sheets._client_instance[1], env), name),
                          name = "")
  /\ UNCHANGED <<all_cards, chromadb_available, call, result, scout, organize, built, deck, setup, strategist, session>>

\* client.get_card_by_name(name)
GetCardByName ==
  /\ MayCall
  /\ \E env \in EnvInputs, name \in {"MERCHANT", "Token"} :
       sheets' = Returned(EnsureLoaded(sheets._client_instance[1], env),
                          get_card_by_name_in_sheet(
                             EnsureLoaded(sheets._client_instance[1], env), name),
                          FALSE)
  /\ UNCHANGED <<all_cards, chromadb_available, call, result, scout, organize, built, deck, setup, strategist, session>>

\* client.get_market_access_cards()
GetMarketAccessCards ==
  /\ MayCall
  /\ \E env \in EnvInputs :
       sheets' = Returned(EnsureLoaded(sheets._client_instance[1], env),
                          get_market_access_cards(
                             EnsureLoaded(sheets._client_instance[1], env)),
                          FALSE)
  /\ UNCHANGED <<all_cards, chromadb_available, call, result, scout, organize, built, deck, setup, strategist, session>>

\* the caller removes the last element of the list it was returned
\* (returned.pop()); the cache loses it too when the list is the cache
MutateReturned ==
  /\ sheets.returned # <<>>
  /\ sheets' =
       IF sheets.returned_is_cache
         THEN [sheets EXCEPT
                 !.returned = SubSeq(@, 1, Len(@) - 1),
                 !._client_instance[1]._cards_cache = SubSeq(@, 1, Len(@) - 1),
                 !.cache_changed_by_caller = TRUE]
         ELSE [sheets EXCEPT !.returned = SubSeq(@, 1, Len(@) - 1)]
  /\ UNCHANGED <<all_cards, chromadb_available, call, result, scout, organize, built, deck, setup, strategist, session>>

NextSheets ==
  \/ GetSheetsClient \/ GetAllCards \/ SearchCards \/ GetCardByName
  \/ GetMarketAccessCards \/ MutateReturned

SpecSheets == Init /\ [][NextSheets]_vars

\* ------------------------------------------------------------------------
\* rag/setup_knowledge.py: a run of setup_all_collections, step by step
\* ------------------------------------------------------------------------
\* setup_all_collections is called: checkpoint_data = self.checkpoint.load()
SetupStart ==
  /\ setup.pc = "idle"
  /\ setup.runs < MaxRuns
  /\ setup' = [setup EXCEPT
                 !.pc = "enter_cards",
                 !.checkpoint_data = load(setup.checkpoint_file),
                 !.i = 0, !.batch_added = FALSE, !.attempt = 1,
                 !.runs = @ + 1,
                 !.first_pass = @ /\ setup.completions = 0,
                 !.handled = <<>>,
                 !.run_adds = [k \in 1..NumCards |-> 0]]
  /\ UNCHANGED <<all_cards, chromadb_available, call, result, scout, organize, built, deck, sheets, strategist, session>>

\* _setup_cards_collection up to its loop: return when the checkpoint says
\* complete, else create or get the collection and take start_idx
EnterCards ==
  /\ setup.pc = "enter_cards"
  /\ setup' =
       IF IsComplete(setup.checkpoint_data, "eternal_cards")
       THEN [setup EXCEPT !.pc = "enter_mechanics",
                          !.handled = Append(@, Handled("eternal_cards", FALSE))]
       ELSE [setup EXCEPT
               !.pc = "cards",
               !.chroma = CreateOrGetCollection(@, "eternal_cards"),
               !.i = StartIdx(setup.checkpoint_data),
               !.batch_added = FALSE,
               !.handled = Append(@, Handled("eternal_cards", TRUE))]
  /\ UNCHANGED <<all_cards, chromadb_available, call, result, scout, organize, built, deck, sheets, strategist, session>>

\* a checkpoint is due: self.checkpoint.save(...) opens the temporary file
\* and starts to write; the action that follows ends the write and does
\* temp_path.replace(self.checkpoint_path)
SaveDue ==
  \/ setup.pc = "cards" /\ setup.batch_added
  \/ setup.pc = "cards" /\ setup.i >= NumCards
  \/ setup.pc \in {"mechanics_added", "discoveries"}

WriteTemp ==
  /\ SaveDue
  /\ ~setup.writing
  /\ setup' = OpenForWrite(setup)
  /\ UNCHANGED <<all_cards, chromadb_available, call, result, scout, organize, built, deck, sheets, strategist, session>>

\* one pass of the loop up to collection.add(ids=ids, ...)
CardsAdd ==
  /\ setup.pc = "cards"
  /\ setup.i < NumCards
  /\ ~setup.batch_added
  /\ setup' = [setup EXCEPT
                 !.chroma = CollectionAdd(@, "eternal_cards",
                              SelectSeq(SetupCards, LAMBDA id :
                                \E k \in BatchAt(setup.i) : SetupCards[k] = id)),
                 !.add_calls = [k \in 1..NumCards |->
                                  IF k \in BatchAt(setup.i) THEN @[k] + 1 ELSE @[k]],
                 !.run_adds = [k \in 1..NumCards |->
                                 IF k \in BatchAt(setup.i) THEN @[k] + 1 ELSE @[k]],
                 !.batch_added = TRUE]
  /\ UNCHANGED <<all_cards, chromadb_available, call, result, scout, organize, built, deck, sheets, strategist, session>>

\* the rest of the pass: self.checkpoint.save({... "eternal_cards_processed":
\* i + len(batch_cards) ...}), which replaces the whole dict
CardsSave ==
  /\ setup.pc = "cards"
  /\ setup.batch_added
  /\ setup.writing
  /\ setup' = [setup EXCEPT
                 !.temp_file = <<>>, !.writing = FALSE,
                 !.checkpoint_file =
                    << CheckpointDict("processing_cards",
                         << setup.i + Cardinality(BatchAt(setup.i)) >>,
                         <<>>, <<>>, <<>>) >>,
                 !.i = @ + batch_size,
                 !.batch_added = FALSE]
  /\ UNCHANGED <<all_cards, chromadb_available, call, result, scout, organize, built, deck, sheets, strategist, session>>

\* after the loop: the complete flag is put into the dict on disk
CardsComplete ==
  /\ setup.pc = "cards"
  /\ setup.i >= NumCards
  /\ ~setup.batch_added
  /\ setup.writing
  /\ setup' = [setup EXCEPT
                 !.temp_file = <<>>, !.writing = FALSE,
                 !.checkpoint_file = MarkComplete(@, "eternal_cards"),
                 !.pc = "enter_mechanics"]
  /\ UNCHANGED <<all_cards, chromadb_available, call, result, scout, organize, built, deck, sheets, strategist, session>>

\* a ConnectionError or TimeoutError inside _setup_cards_collection: @retry
\* calls it again with the same checkpoint_data
CardsRetry ==
  /\ setup.pc = "cards"
  /\ ~setup.writing
  /\ setup.attempt < stop_after_attempt
  /\ setup' = [setup EXCEPT
                 !.pc = "enter_cards", !.attempt = @ + 1, !.retries = @ + 1,
                 !.handled = SubSeq(@, 1, Len(@) - 1)]
  /\ UNCHANGED <<all_cards, chromadb_available, call, result, scout, organize, built, deck, sheets, strategist, session>>

\* _setup_mechanics_collection up to its add
EnterMechanics ==
  /\ setup.pc = "enter_mechanics"
  /\ setup' =
       IF IsComplete(setup.checkpoint_data, "eternal_mechanics")
       THEN [setup EXCEPT !.pc = "enter_discoveries",
                          !.handled = Append(@, Handled("eternal_mechanics", FALSE))]
       ELSE [setup EXCEPT
               !.pc = "mechanics",
               !.chroma = CreateOrGetCollection(@, "eternal_mechanics"),
               !.handled = Append(@, Handled("eternal_mechanics", TRUE))]
  /\ UNCHANGED <<all_cards, chromadb_available, call, result, scout, organize, built, deck, sheets, strategist, session>>

\* collection.add(ids=skill_ids, ...)
MechanicsAdd ==
  /\ setup.pc = "mechanics"
  /\ setup' = [setup EXCEPT
                 !.chroma = CollectionAdd(@, "eternal_mechanics", MechanicsIds),
                 !.pc = "mechanics_added"]
  /\ UNCHANGED <<all_cards, chromadb_available, call, result, scout, organize, built, deck, sheets, strategist, session>>

MechanicsComplete ==
  /\ setup.pc = "mechanics_added"
  /\ setup.writing
  /\ setup' = [setup EXCEPT
                 !.temp_file = <<>>, !.writing = FALSE,
                 !.checkpoint_file = MarkComplete(@, "eternal_mechanics"),
                 !.pc = "enter_discoveries"]
  /\ UNCHANGED <<all_cards, chromadb_available, call, result, scout, organize, built, deck, sheets, strategist, session>>

\* _setup_discoveries_collection up to its checkpoint: the collection is
\* created empty
EnterDiscoveries ==
  /\ setup.pc = "enter_discoveries"
  /\ setup' =
       IF IsComplete(setup.checkpoint_data, "discovered_synergies")
       THEN [setup EXCEPT !.pc = "clear",
                          !.handled = Append(@, Handled("discovered_synergies", FALSE))]
       ELSE [setup EXCEPT
               !.pc = "discoveries",
               !.chroma = CreateOrGetCollection(@, "discovered_synergies"),
               !.handled = Append(@, Handled("discovered_synergies", TRUE))]
  /\ UNCHANGED <<all_cards, chromadb_available, call, result, scout, organize, built, deck, sheets, strategist, session>>

DiscoveriesComplete ==
  /\ setup.pc = "discoveries"
  /\ setup.writing
  /\ setup' = [setup EXCEPT
                 !.temp_file = <<>>, !.writing = FALSE,
                 !.checkpoint_file = MarkComplete(@, "discovered_synergies"),
                 !.pc = "clear"]
  /\ UNCHANGED <<all_cards, chromadb_available, call, result, scout, organize, built, deck, sheets, strategist, session>>

\* self.checkpoint.clear() after the three collections; the run is over
ClearCheckpoint ==
  /\ setup.pc = "clear"
  /\ setup' = [setup EXCEPT !.checkpoint_file = <<>>, !.pc = "idle",
                            !.completions = @ + 1]
  /\ UNCHANGED <<all_cards, chromadb_available, call, result, scout, organize, built, deck, sheets, strategist, session>>

\* the run is interrupted where it stands (an exception that is raised on,
\* the process stopped); the file and the store stay as they are
Interrupt ==
  /\ setup.pc # "idle"
  /\ setup' = [setup EXCEPT
                 !.pc = "idle",
                 !.writing = FALSE,
                 !.unsaved = [k \in 1..NumCards |->
                                IF /\ setup.pc = "cards" /\ setup.batch_added
                                   /\ k \in BatchAt(setup.i)
                                THEN @[k] + 1 ELSE @[k]]]
  /\ UNCHANGED <<all_cards, chromadb_available, call, result, scout, organize, built, deck, sheets, strategist, session>>

\* fix_mechanics.py, confirmed with 'y': delete_collection raises and the
\* script exits when there is no eternal_mechanics collection, else the
\* checkpoint is written over
FixMechanics ==
  /\ setup.pc = "idle"
  /\ setup.chroma["eternal_mechanics"] # <<>>
  /\ setup' = [setup EXCEPT
                 !.chroma["eternal_mechanics"] = <<>>,
                 !.checkpoint_file =
                    << CheckpointDict("processing_mechanics", <<>>,
                                      <<TRUE>>, <<FALSE>>, <<TRUE>>) >>]
  /\ UNCHANGED <<all_cards, chromadb_available, call, result, scout, organize, built, deck, sheets, strategist, session>>

NextSetup ==
  \/ SetupStart \/ EnterCards \/ WriteTemp \/ CardsAdd \/ CardsSave \/ CardsComplete
  \/ CardsRetry \/ EnterMechanics \/ MechanicsAdd \/ MechanicsComplete
  \/ EnterDiscoveries \/ DiscoveriesComplete \/ ClearCheckpoint
  \/ Interrupt \/ FixMechanics

SpecSetup == Init /\ [][NextSetup]_vars

\* ------------------------------------------------------------------------
\* agents/strategy_scout.py: direct calls of the strategy functions
\* ------------------------------------------------------------------------
\* a call self._detect_patterns(user_input)
DetectPatterns ==
  /\ strategist.pc = "idle"
  /\ \E user_input \in PatternInputs :
       strategist' = [StrategistIdle EXCEPT
                        !.pc = "detected",
                        !.user_input = user_input,
                        !.analysis = _detect_patterns(user_input)]
  /\ UNCHANGED <<all_cards, chromadb_available, call, result, scout, organize, built, deck, sheets, setup, session>>

\* a call self._create_search_queries(strategy, original_input)
CreateSearchQueries ==
  /\ strategist.pc = "idle"
  /\ \E strategy \in QueryStrategyInputs, original_input \in PatternInputs :
       strategist' = [StrategistIdle EXCEPT
                        !.pc = "queries",
                        !.user_input = original_input,
                        !.strategy = strategy,
                        !.search_queries =
                           _create_search_queries(strategy, original_input)]
  /\ UNCHANGED <<all_cards, chromadb_available, call, result, scout, organize, built, deck, sheets, setup, session>>

\* a call self._create_base_filters(strategy, additional_filters)
CreateBaseFilters ==
  /\ strategist.pc = "idle"
  /\ \E strategy \in QueryStrategyInputs, additional_filters \in BaseFilterInputs :
       strategist' = [StrategistIdle EXCEPT
                        !.pc = "filters",
                        !.strategy = strategy,
                        !.additional_filters = additional_filters,
                        !.base_filters =
                           _create_base_filters(strategy, additional_filters)]
  /\ UNCHANGED <<all_cards, chromadb_available, call, result, scout, organize, built, deck, sheets, setup, session>>

\* the caller is done with what the call returned
StrategistRelease ==
  /\ strategist.pc # "idle"
  /\ strategist' = StrategistIdle
  /\ UNCHANGED <<all_cards, chromadb_available, call, result, scout, organize, built, deck, sheets, setup, session>>

NextStrategy ==
  DetectPatterns \/ CreateSearchQueries \/ CreateBaseFilters \/ StrategistRelease

SpecStrategy == Init /\ [][NextStrategy]_vars

\* ------------------------------------------------------------------------
\* Properties of SearchEngine.search
\* ------------------------------------------------------------------------
LowerNames(cards) == {Lower(cards[i].name) : i \in 1..Len(cards)}

\* the cards of a list that the search branch itself found, i.e. that
\* _ensure_must_include did not insert
FoundBySearch(r) ==
  LET found == LowerNames(r.searched)
      Keep(c) == Lower(c.name) \in found
  IN  SelectSeq(r.cards, Keep)

\* the must_include names of the call that the catalog knows
KnownRequired(r) ==
  {n \in Range(LowerAll(r.filters_applied.must_include)) :
     n \in DOMAIN cards_by_name(all_cards)}

C2_MustExcludeAbsent ==
  call = "returned"
    => LowerNames(result.cards)
         \cap Range(LowerAll(result.filters_applied.must_exclude)) = {}

\* a name both required and excluded, in a call that still returns cards
C2_Witness ==
  /\ call = "returned"
  /\ result.filters_applied.must_include = <<"torch">>
  /\ result.filters_applied.must_exclude = <<"TORCH", "Icaria">>
  /\ "torch" \in LowerNames(result.searched)
  /\ result.cards # <<>>

\* C3: browse is picked exactly for an empty query with no must_include,
\* the vector search exactly for a non-empty query with the store available,
\* the substring search otherwise; used_chromadb tells the vector search.
C3_DispatchModes ==
  call = "returned"
    => LET q == result.query
           mi == result.filters_applied.must_include
       IN  /\ result.mode \in {"browse", "semantic", "simple"}
           /\ result.mode = "browse" <=> (q = "" /\ mi = <<>>)
           /\ result.mode = "semantic" <=> (chromadb_available /\ q # "")
           /\ (q = "" /\ mi # <<>>) => result.mode = "simple"
           /\ result.used_chromadb <=> result.mode = "semantic"
           /\ ~chromadb_available => ~result.used_chromadb

\* an empty query with must_include set, the store being available
C3_Witness ==
  /\ call = "returned"
  /\ chromadb_available
  /\ result.query = ""
  /\ result.filters_applied.must_include # <<>>
  /\ result.mode = "simple"
  /\ result.cards # <<>>

\* C4: every returned card that must_include did not add passes the cost
\* bounds, the unit type filter and the faction filter of the call.
C4_PostFilterChain ==
  call = "returned"
    => LET f == result.filters_applied
           found == FoundBySearch(result)
           factions(c) == {g \in Range(FACTION_NAMES) :
                             StrIn(FACTION_SYMBOLS[g], c.influence)}
       IN  \A i \in 1..Len(found) :
             LET c == found[i]
             IN  /\ f.min_cost # <<>> => c.cost >= f.min_cost[1]
                 /\ f.max_cost # <<>> => c.cost <= f.max_cost[1]
                 /\ f.unit_types # <<>> =>
                      \E t \in Range(c.unit_types) :
                        Lower(t) \in Range(LowerAll(f.unit_types))
                 /\ f.allowed_factions # <<>> =>
                      /\ factions(c) \subseteq Range(f.allowed_factions)
                      /\ f.max_factions_per_card # 0 =>
                           Cardinality(factions(c)) <= f.max_factions_per_card

\* cost, unit type and faction filters all set, a card passing them returned
\* next to a card that must_include added
C4_Witness ==
  /\ call = "returned"
  /\ result.filters_applied.min_cost # <<>>
  /\ result.filters_applied.unit_types # <<>>
  /\ result.filters_applied.max_factions_per_card = 1
  /\ FoundBySearch(result) # <<>>
  /\ Len(FoundBySearch(result)) < Len(result.cards)

\* C5: when card_types is set, every returned card that must_include did not
\* add has its type in card_types, in every dispatch mode.
C5_CardTypesRespected ==
  (call = "returned" /\ result.filters_applied.card_types # <<>>)
    => \A c \in Range(FoundBySearch(result)) :
         c.type \in Range(result.filters_applied.card_types)

\* C6: result.cards has at most n_results cards, total_found is at least
\* that many, and result.cards is a prefix of the list total_found counts.
C6_TruncatedPrefix ==
  call = "returned"
    => /\ Len(result.cards) <= result.n_results
       /\ result.total_found >= Len(result.cards)
       /\ result.total_found = Len(result.results)
       /\ result.cards = SubSeq(result.results, 1, Len(result.cards))

\* a call whose list is really cut
C6_Witness ==
  /\ call = "returned"
  /\ Len(result.cards) > 0
  /\ result.total_found > Len(result.cards)
  /\ Len(result.cards) = result.n_results

\* ------------------------------------------------------------------------
\* Properties of StrategyScoutAgent
\* ------------------------------------------------------------------------
Names(cards) == {cards[i].name : i \in 1..Len(cards)}

\* C7: the strategy of _analyze_strategy is _detect_patterns(user_input)
\* whether the language model answers (whatever it answers) or raises, so the
\* StrategyAnalysis, the enriched strategy and the search queries of a run are
\* a function of the user input alone.
C7_StrategyIndependentOfLLM ==
  scout.pc \in {"searching", "done"} =>
    /\ scout.analysis = _detect_patterns(scout.user_input)
    /\ scout.strategy = _enrich_with_knowledge(_detect_patterns(scout.user_input))
    /\ scout.search_queries =
         _create_search_queries(
            _enrich_with_knowledge(_detect_patterns(scout.user_input)),
            scout.user_input)
    /\ scout.pc = "done" => scout.out.strategy = scout.strategy

\* the model answered, and named another archetype than the patterns found
C7_Witness ==
  /\ scout.pc = "done"
  /\ ~scout.response.raised
  /\ LET said == MatchingKeys(ARCHETYPE_PATTERNS, Lower(scout.response.content))
     IN  said # <<>> /\ said[1] # scout.out.strategy.archetype

\* C8: the card pool analyze_and_scout returns has no two cards of the same
\* name, and pool_size, len(card_pool) and search_metadata["unique_cards"]
\* are the same number.
C8_PoolHasUniqueNames ==
  scout.pc = "done" =>
    LET card_pool == scout.out.card_pool
    IN  /\ \A i, j \in 1..Len(card_pool) :
             i # j => card_pool[i].name # card_pool[j].name
        /\ scout.out.pool_size = Len(card_pool)
        /\ scout.out.search_metadata.unique_cards = Len(card_pool)

\* several queries ran, two of them returned the same card, and two cards of
\* the pool have the same cost
C8_Witness ==
  /\ scout.pc = "done"
  /\ \E i, j \in 1..Len(scout.executed) :
       i # j /\ Names(scout.executed[i].cards) \cap Names(scout.executed[j].cards) # {}
  /\ \E i, j \in 1..Len(scout.out.card_pool) :
       i # j /\ scout.out.card_pool[i].cost = scout.out.card_pool[j].cost

\* C9: the names of the final pool are exactly the names of the cards some
\* executed query returned; every query of the list was run, each with the
\* same base filters.
C9_PoolIsUnionOfResults ==
  scout.pc = "done" =>
    /\ Names(scout.out.card_pool) =
         UNION {Names(scout.executed[i].cards) : i \in 1..Len(scout.executed)}
    /\ Len(scout.executed) = scout.out.search_metadata.queries_executed
    /\ \A i \in 1..Len(scout.executed) :
         /\ scout.executed[i].query = scout.search_queries[i].query
         /\ scout.executed[i].filters = scout.base_filters

\* queries returned different lists, a later one a card already seen followed
\* by a new one, and organizing changed the order of the pool
C9_Witness ==
  /\ scout.pc = "done"
  /\ scout.out.card_pool # scout.all_cards
  /\ \E i \in 2..Len(scout.executed) :
       LET cards == scout.executed[i].cards
           earlier == UNION {Names(scout.executed[k].cards) : k \in 1..(i - 1)}
       IN  \E a, b \in 1..Len(cards) :
             a < b /\ cards[a].name \in earlier /\ cards[b].name \notin earlier

\* the block of a card: 0 named in must_include_cards, 1 core, 2 synergy,
\* 3 support
Block(card, strategy) ==
  IF card.name \in Range(strategy.must_include_cards) THEN 0
  ELSE IF is_power(card) THEN 3
  ELSE IF FloatGE(_calculate_relevance(card, strategy), "0.8") THEN 1
  ELSE IF FloatGE(_calculate_relevance(card, strategy), "0.5") THEN 2
  ELSE 3

\* C10: the list _organize_card_pool returns holds the cards it was given,
\* the cards named in strategy.must_include_cards first, then the core cards,
\* then the synergy cards, then the support cards, and the cards of each of
\* the last three blocks in non-decreasing cost order.
C10_FourBlocksInCostOrder ==
  organize.pc = "returned" =>
    LET pool == organize.pool
        strategy == organize.strategy
    IN  /\ Range(pool) = Range(organize.cards)
        /\ \A i, j \in 1..Len(pool) :
             i < j =>
               /\ Block(pool[i], strategy) <= Block(pool[j], strategy)
               /\ (Block(pool[i], strategy) = Block(pool[j], strategy)
                     /\ Block(pool[i], strategy) # 0)
                    => pool[i].cost <= pool[j].cost

\* the four blocks are all there, and two cards of one of the last three
\* came in decreasing cost order
C10_Witness ==
  /\ organize.pc = "returned"
  /\ {Block(organize.pool[i], organize.strategy) : i \in 1..Len(organize.pool)}
       = {0, 1, 2, 3}
  /\ \E i, j \in 1..Len(organize.cards) :
       /\ i < j
       /\ Block(organize.cards[i], organize.strategy)
            = Block(organize.cards[j], organize.strategy)
       /\ Block(organize.cards[i], organize.strategy) # 0
       /\ organize.cards[i].cost > organize.cards[j].cost

\* ------------------------------------------------------------------------
\* Properties of data/models.py
\* ------------------------------------------------------------------------
\* C11: of is_power, is_unit and is_spell at most one holds, each exactly
\* when the type is "power", "unit", "spell" without regard to case; is_sigil
\* holds exactly for a power whose name contains "sigil", so it implies
\* is_power; can_access_market holds exactly when the cleaned card text
\* contains "your market" without regard to case, and not for an empty text.
C11_CardFlags ==
  built.pc = "built" =>
    LET flags == built.computed
        type == Lower(built.card.type)
    IN  /\ flags.is_power <=> type = "power"
        /\ flags.is_unit <=> type = "unit"
        /\ flags.is_spell <=> type = "spell"
        /\ Cardinality({f \in {"is_power", "is_unit", "is_spell"} : flags[f]}) <= 1
        /\ flags.is_sigil => flags.is_power
        /\ flags.is_sigil <=>
             (type = "power" /\ StrIn("sigil", Lower(built.card.name)))
        /\ flags.can_access_market <=>
             StrIn("your market", Lower(built.card.card_text))
        /\ built.raw_text = "" => ~flags.can_access_market

\* a power that is no sigil next to a market card whose sheet text has the
\* words apart: the tag between them was cleaned away
C11_Witness ==
  /\ built.pc = "built"
  /\ built.computed.is_power /\ ~built.computed.is_sigil
  /\ built.computed.can_access_market
  /\ ~StrIn("your market", Lower(built.raw_text))

\* C12: a quantity above 4 is accepted for a Sigil and for no other card,
\* by the quantity selection kept in session state and by DeckCard alike.
C12_OnlySigilsAboveFour ==
  /\ \A card_name \in DOMAIN deck.card_quantities :
       deck.card_quantities[card_name] > 4 =>
         \E i \in 1..Len(DeckPool) :
           DeckPool[i].name = card_name /\ is_sigil(DeckPool[i])
  /\ \A i \in 1..Len(deck.deck_card) :
       deck.deck_card[i].quantity > 4 =>
         (~deck.deck_card[i].raised <=> is_sigil(deck.deck_card[i].card))

\* the selector holds more than four copies of a Sigil
C12_SelectorTakesSigils ==
  \E card_name \in DOMAIN deck.card_quantities :
    deck.card_quantities[card_name] > 4

\* ------------------------------------------------------------------------
\* Properties of data/sheets_client.py
\* ------------------------------------------------------------------------
\* the row is deck buildable, has a name, and its cells convert
LoadableRow(row) ==
  /\ row.DeckBuildable[1] = "str" /\ Lower(row.DeckBuildable[2]) = "true"
  /\ Truthy(row.Name)
  /\ row.Name[1] = "str" /\ IntOf(row.Cost) # <<>>
  /\ row.Type[1] = "str" /\ row.CardText[1] = "str"

\* C13: a load whose fetch answered is not aborted by any row: the cache
\* holds one card for every row that is deck buildable ("TRUE" in any case),
\* has a name and converts, in sheet order, every card of it has
\* deck_buildable true, and every other row yielded None.
C13_BadRowsYieldNone ==
  \A i \in 1..Len(sheets._client_instance) :
    LET client == sheets._client_instance[i]
    IN  (client.loads = 1 /\ client.fetched # <<>> /\ ~sheets.cache_changed_by_caller) =>
          LET rows == SelectSeq(client.fetched[1], LoadableRow)
          IN  /\ client._cache_loaded
              /\ Len(client._cards_cache) = Len(rows)
              /\ \A k \in 1..Len(rows) :
                   /\ client._cards_cache[k].name = Strip(rows[k].Name[2])
                   /\ client._cards_cache[k].deck_buildable

\* C14: GoogleSheetsClient is constructed at most once and at most one load
\* succeeds; until a load has succeeded the cache is empty, and from then on
\* it is what that load left, whatever calls follow and whatever the caller
\* does to a list get_all_cards returned.
C14_OneLoadCacheKept ==
  /\ sheets.created <= 1
  /\ \A i \in 1..Len(sheets._client_instance) :
       LET client == sheets._client_instance[i]
       IN  /\ client.successes <= 1
           /\ ~client._cache_loaded => client._cards_cache = <<>>
           /\ (client._cache_loaded /\ ~sheets.cache_changed_by_caller) =>
                client._cards_cache = client.loaded[1]


\* ------------------------------------------------------------------------
\* Properties of setup_all_collections
\* ------------------------------------------------------------------------
\* the ids a collection holds when all its items were added
ItemsOf(collection_name) ==
  IF collection_name = "eternal_cards" THEN Range(SetupCards)
  ELSE IF collection_name = "eternal_mechanics" THEN Range(MechanicsIds)
  ELSE {}

\* the checkpoint has the complete flag of the collection, and it is true
FlagTrue(checkpoint, collection_name) ==
  /\ checkpoint # <<>>
  /\ \/ collection_name = "eternal_cards"
        /\ checkpoint[1].eternal_cards_complete = <<TRUE>>
     \/ collection_name = "eternal_mechanics"
        /\ checkpoint[1].eternal_mechanics_complete = <<TRUE>>
     \/ collection_name = "discovered_synergies"
        /\ checkpoint[1].discovered_synergies_complete = <<TRUE>>

\* C15 as stated: up to the first completed run every card is passed to
\* collection.add at most once, and exactly once when the run has completed
C15_EveryCardAddedOnce ==
  setup.first_pass =>
    /\ \A k \in 1..NumCards : setup.add_calls[k] <= 1
    /\ setup.completions = 1 => \A k \in 1..NumCards : setup.add_calls[k] = 1

\* C15: up to the first completed run, the card loop resumes at the index
\* saved in the checkpoint; no card is skipped (every card below a saved
\* index, and every card once the complete flag is on disk, has been added
\* and is in the collection); the collection holds no id twice; and a card
\* is passed to collection.add once more only for each run that ended
\* between its add and the save of its checkpoint and for each retry
C15_ResumeAddsEveryCard ==
  setup.first_pass =>
    LET items == IF setup.chroma["eternal_cards"] = <<>> THEN <<>>
                 ELSE setup.chroma["eternal_cards"][1]
        saved == StartIdx(setup.checkpoint_file)
        added(k) == setup.add_calls[k] >= 1 /\ SetupCards[k] \in Range(items)
    IN  /\ setup.pc = "cards" =>
             /\ setup.i >= StartIdx(setup.checkpoint_data)
             /\ (setup.i - StartIdx(setup.checkpoint_data)) % batch_size = 0
             /\ \A k \in 1..NumCards :
                  k <= StartIdx(setup.checkpoint_data) => added(k)
        /\ \A k \in 1..NumCards : k <= saved => added(k)
        /\ IsComplete(setup.checkpoint_file, "eternal_cards") =>
             \A k \in 1..NumCards : added(k)
        /\ setup.completions = 1 => \A k \in 1..NumCards : added(k)
        /\ \A a, b \in 1..Len(items) : items[a] = items[b] => a = b
        /\ \A k \in 1..NumCards :
             setup.add_calls[k] <= 1 + setup.unsaved[k] + setup.retries

\* a completed first pass in which a run had ended between the add of a
\* batch and its checkpoint, so that the batch was added again
C15_Witness ==
  /\ setup.first_pass /\ setup.completions = 1 /\ setup.runs >= 2
  /\ \E k \in 1..NumCards : setup.add_calls[k] = 2 /\ setup.unsaved[k] = 1
  /\ setup.retries = 0

\* C16, the steps: a run adds nothing to a collection whose complete flag
\* is true in the checkpoint it loaded, and a run writes a complete flag only
\* when all items of the collection are in it
C16_Steps ==
  \A name \in Range(CollectionNames) :
    /\ (setup.pc # "idle" /\ FlagTrue(setup.checkpoint_data, name)) =>
         setup'.chroma[name] = setup.chroma[name]
    /\ (/\ setup.pc # "idle"
        /\ ~FlagTrue(setup.checkpoint_file, name)
        /\ FlagTrue(setup'.checkpoint_file, name)) =>
         /\ setup'.chroma[name] # <<>>
         /\ ItemsOf(name) \subseteq Range(setup'.chroma[name][1])

\* C16, the states: the collections a run has come to are the first ones
\* of eternal_cards, eternal_mechanics, discovered_synergies in that
\* order, all three when the run reaches the end; one is processed exactly
\* when its complete flag is not true in the checkpoint loaded at start
C16_Handled ==
  /\ Len(setup.handled) <= Len(CollectionNames)
  /\ \A h \in 1..Len(setup.handled) :
       /\ setup.handled[h].collection_name = CollectionNames[h]
       /\ setup.handled[h].processed =
            ~FlagTrue(setup.checkpoint_data, CollectionNames[h])
  /\ setup.pc = "clear" => Len(setup.handled) = Len(CollectionNames)

\* C16: on every run a collection whose complete flag is true in the
\* checkpoint loaded at start is not processed and nothing is added to it,
\* one whose flag is absent or false is processed, the collections are
\* handled in the order eternal_cards, eternal_mechanics,
\* discovered_synergies, and a complete flag is written only after all
\* items of its collection were added
C16_CompleteCollectionsSkipped == [][C16_Steps]_vars /\ []C16_Handled

\* a run after fix_mechanics.py reaches its end: eternal_cards and
\* discovered_synergies were skipped, eternal_mechanics was processed
C16_Witness ==
  /\ setup.pc = "clear"
  /\ FlagTrue(setup.checkpoint_data, "eternal_cards")
  /\ ~FlagTrue(setup.checkpoint_data, "eternal_mechanics")
  /\ setup.checkpoint_data # <<>>
  /\ setup.checkpoint_data[1].eternal_mechanics_complete = <<FALSE>>
  /\ setup.handled = << Handled("eternal_cards", FALSE),
                        Handled("eternal_mechanics", TRUE),
                        Handled("discovered_synergies", FALSE) >>
  /\ Range(setup.chroma["eternal_mechanics"][1]) = Range(MechanicsIds)


\* ------------------------------------------------------------------------
\* Properties of the strategy functions
\* ------------------------------------------------------------------------
\* some pattern of entry i of the table is a substring of the text
PatternHit(table, i, text) ==
  \E k \in 1..Len(table[i][2]) : StrIn(table[i][2][k], text)

\* the number of entries of the table before entry i that the text matches
HitsBefore(table, i, text) ==
  Cardinality({j \in 1..(i - 1) : PatternHit(table, j, text)})

\* the purpose of a query is "mechanic_" followed by something
IsMechanicQuery(q) ==
  Len(q.purpose) >= 9 /\ SubSeq(q.purpose, 1, 9) = "mechanic_"

\* C17: the list _create_search_queries returns starts with the original
\* user input, holds no query string twice (a string the list already has
\* is dropped, so the first query of each string stays, in the order of
\* creation), and its mechanic queries are at most three, one for each of
\* the first three key mechanics in their order
C17_QueriesStartUniqueThreeMechanics ==
  strategist.pc = "queries" =>
    LET qs == strategist.search_queries
        strategy == strategist.strategy
        top == SubSeq(strategy.key_mechanics, 1,
                      IF Len(strategy.key_mechanics) < 3
                        THEN Len(strategy.key_mechanics) ELSE 3)
        text(m) == IF strategy.primary_faction # ""
                     THEN m \o " " \o strategy.primary_faction ELSE m
        mechanic == {a \in 1..Len(qs) : IsMechanicQuery(qs[a])}
        at(i) == {a \in 1..Len(qs) : qs[a].query = text(top[i])}
    IN  /\ Len(qs) >= 1
        /\ qs[1] = Query(strategist.user_input, "original_input")
        /\ \A a, b \in 1..Len(qs) : qs[a].query = qs[b].query => a = b
        /\ Cardinality(mechanic) <= 3
        /\ \A a \in mechanic :
             \E i \in 1..Len(top) :
               qs[a] = Query(text(top[i]), "mechanic_" \o top[i])
        /\ \A i \in 1..Len(top) : at(i) # {}
        /\ \A i, j \in 1..Len(top) :
             \A a \in at(i), b \in at(j) :
               (i < j /\ a \in mechanic /\ b \in mechanic) => a < b
        /\ \A i \in 1..Len(top) :
             text(top[i]) = strategist.user_input => at(i) = {1}

\* a strategy with more than three key mechanics, asked with an input that
\* is the text of its first mechanic query, and with a win condition named
\* twice: three strings were dropped
C17_Witness ==
  /\ strategist.pc = "queries"
  /\ Len(strategist.strategy.key_mechanics) > 3
  /\ strategist.strategy.primary_faction = ""
  /\ strategist.strategy.key_mechanics[1] = strategist.user_input
  /\ strategist.strategy.preferred_win_conditions # <<>>
  /\ Cardinality({a \in 1..Len(strategist.search_queries) :
                    IsMechanicQuery(strategist.search_queries[a])}) = 2

\* C18: _detect_patterns gives the first archetype of the table, in the
\* order aggro, control, midrange, combo, one of whose keywords is in the
\* lower-cased input, and midrange when there is none; the speed is fast
\* exactly for aggro, slow exactly for control and medium otherwise; the
\* primary faction is the first matching faction in the order Fire, Time,
\* Justice, Primal, Shadow, and the second and third matching factions, no
\* more, are the secondary factions
C18_FirstArchetypeAndFactions ==
  strategist.pc = "detected" =>
    LET text == Lower(strategist.user_input)
        analysis == strategist.analysis
        A == <<"aggro", "control", "midrange", "combo">>
        F == <<"Fire", "Time", "Justice", "Primal", "Shadow">>
        hitA(i) == PatternHit(ARCHETYPE_PATTERNS, i, text)
        hitF(i) == PatternHit(FACTION_PATTERNS, i, text)
        rank(i) == HitsBefore(FACTION_PATTERNS, i, text)
        hits == Cardinality({i \in 1..5 : hitF(i)})
    IN  /\ [i \in 1..4 |-> ARCHETYPE_PATTERNS[i][1]] = A
        /\ [i \in 1..5 |-> FACTION_PATTERNS[i][1]] = F
        /\ \A i \in 1..4 :
             (hitA(i) /\ \A j \in 1..(i - 1) : ~hitA(j)) => analysis.archetype = A[i]
        /\ (\A i \in 1..4 : ~hitA(i)) => analysis.archetype = "midrange"
        /\ analysis.speed = "fast" <=> analysis.archetype = "aggro"
        /\ analysis.speed = "slow" <=> analysis.archetype = "control"
        /\ analysis.speed = "medium" <=> analysis.archetype \in {"midrange", "combo"}
        /\ hits = 0 => analysis.primary_faction = "" /\ analysis.secondary_factions = <<>>
        /\ \A i \in 1..5 :
             (hitF(i) /\ rank(i) = 0) => analysis.primary_faction = F[i]
        /\ Len(analysis.secondary_factions) = (IF hits > 3 THEN 2 ELSE IF hits = 0 THEN 0 ELSE hits - 1)
        /\ \A i \in 1..5 :
             (hitF(i) /\ rank(i) \in {1, 2}) => analysis.secondary_factions[rank(i)] = F[i]
        /\ \A k \in 1..Len(analysis.secondary_factions) :
             analysis.secondary_factions[k] # analysis.primary_faction

\* an input naming control before aggro and one naming more than three
\* factions have been analysed
C18_Witness ==
  /\ strategist.pc = "detected"
  /\ \/ /\ strategist.user_input = "slow CONTROL after a fast start"
        /\ strategist.analysis.archetype = "aggro"
        /\ strategist.analysis.speed = "fast"
     \/ /\ strategist.user_input = "fire time justice primal shadow"
        /\ strategist.analysis.primary_faction = "Fire"
        /\ strategist.analysis.secondary_factions = <<"Time", "Justice">>

\* C19: every field of the filters the caller gave that is not at its
\* default (a non-empty allowed_factions, a non-empty unit_types, a max_cost
\* that is not None, any other field) has the caller's value in the base
\* filters, whatever the strategy; only allowed_factions, include_market,
\* unit_types and max_cost can differ from what the caller gave, and a
\* strategy value is put only where the caller's field is at its default
C19_CallerFiltersKept ==
  strategist.pc = "filters" =>
    LET given == IF strategist.additional_filters # <<>>
                   THEN strategist.additional_filters[1] ELSE DefaultFilters
        base == strategist.base_filters
    IN  /\ DOMAIN base = DOMAIN given
        /\ given.allowed_factions # <<>> => base.allowed_factions = given.allowed_factions
        /\ given.unit_types # <<>> => base.unit_types = given.unit_types
        /\ given.max_cost # <<>> => base.max_cost = given.max_cost
        /\ \A f \in DOMAIN given :
             given[f] # DefaultFilters[f] => base[f] = given[f]
        /\ \A f \in DOMAIN given :
             base[f] # given[f] =>
               f \in {"allowed_factions", "include_market", "unit_types", "max_cost"}

\* the caller gave factions, unit types and a cost cap, and the strategy
\* has other factions, a tribe and an archetype with a cap of its own
C19_Witness ==
  /\ strategist.pc = "filters"
  /\ strategist.additional_filters # <<>>
  /\ strategist.additional_filters[1].allowed_factions = <<"Fire", "Justice">>
  /\ strategist.additional_filters[1].unit_types = <<"Oni">>
  /\ strategist.additional_filters[1].max_cost = <<3>>
  /\ strategist.strategy.archetype = "control"
  /\ strategist.strategy.primary_faction = "Time"
  /\ strategist.base_filters.max_cost = <<3>>


\* C20: when the caller gives no max_cost, the base filters of every query
\* of the run have the cost cap of the archetype, 5 for aggro, 12 for
\* control and none for midrange and combo, and every card of the final
\* pool of an aggro strategy costs at most 5 unless the filters or the
\* strategy named it as a card to include
C20_ArchetypeCostCap ==
  (/\ scout.pc \in {"searching", "done"}
   /\ \/ scout.additional_filters = <<>>
      \/ scout.additional_filters[1].max_cost = <<>>) =>
    LET archetype == scout.strategy.archetype
        required == Range(LowerAll(scout.base_filters.must_include))
                      \cup Range(LowerAll(scout.strategy.must_include_cards))
    IN  /\ archetype \in {"aggro", "control", "midrange", "combo"}
        /\ archetype = "aggro" => scout.base_filters.max_cost = <<5>>
        /\ archetype = "control" => scout.base_filters.max_cost = <<12>>
        /\ archetype \in {"midrange", "combo"} => scout.base_filters.max_cost = <<>>
        /\ \A i \in 1..Len(scout.executed) :
             scout.executed[i].filters.max_cost = scout.base_filters.max_cost
        /\ (scout.pc = "done" /\ archetype = "aggro") =>
             \A i \in 1..Len(scout.out.card_pool) :
               \/ scout.out.card_pool[i].cost <= 5
               \/ Lower(scout.out.card_pool[i].name) \in required

\* an aggro run whose caller allowed Fire and Justice and gave no max_cost
\* is done: its pool has cards, none of them Icaria, a Fire and Justice card
\* of cost 7
C20_Witness ==
  /\ scout.pc = "done"
  /\ scout.additional_filters # <<>>
  /\ scout.additional_filters[1].max_cost = <<>>
  /\ scout.strategy.archetype = "aggro"
  /\ scout.base_filters.max_cost = <<5>>
  /\ scout.base_filters.allowed_factions = <<"Fire", "Justice">>
  /\ scout.out.pool_size > 0
  /\ \E k \in 1..Len(all_cards) :
       /\ all_cards[k].name = "Icaria" /\ all_cards[k].cost > 5
       /\ all_cards[k].name \notin Names(scout.out.card_pool)


\* the user asked for a deck without market
AsksNoMarket(user_input) ==
  \/ StrIn("no market", Lower(user_input))
  \/ StrIn("without market", Lower(user_input))

\* the analysis of a request without market has ended and its flag and base
\* filters say so
C21_FlagAndFilterOff ==
  (scout.pc \in {"searching", "done"} /\ AsksNoMarket(scout.user_input)) =>
    /\ ~scout.strategy.market_preference
    /\ ~scout.base_filters.include_market

\* C21: when the user input contains "no market" or "without market",
\* market_preference is false, include_market is false in the base filters
\* and no card that can access the market is in the final pool, with the
\* vector store available or not.
C21_NoMarketCardInPool ==
  /\ C21_FlagAndFilterOff
  /\ (scout.pc = "done" /\ AsksNoMarket(scout.user_input)) =>
       \A i \in 1..Len(scout.out.card_pool) :
          ~can_access_market(scout.out.card_pool[i])

\* a request without market has returned its pool
C21_Witness ==
  /\ scout.pc = "done"
  /\ AsksNoMarket(scout.user_input)
  /\ ~scout.base_filters.include_market


\* C22: when _setup_cards_collection is retried by its retry decorator after
\* a ConnectionError or TimeoutError raised in the middle of the batches, the
\* retried attempt goes on from the progress the failed attempt saved: no
\* batch the failed attempt added is added again in the same run, and at
\* most 3 attempts are made.
C22_RetryContinuesFromSavedProgress ==
  /\ \A k \in 1..NumCards : setup.run_adds[k] <= 1
  /\ setup.attempt <= stop_after_attempt

\* at most stop_after_attempt attempts are made in a run
C22_AtMostThreeAttempts == setup.attempt <= stop_after_attempt

\* a retried attempt is in its loop after the failed attempt saved progress
C22_Witness ==
  /\ setup.pc = "cards"
  /\ setup.attempt > 1
  /\ setup.checkpoint_file # <<>>
  /\ setup.checkpoint_file[1].eternal_cards_processed # <<>>
  /\ setup.checkpoint_data = <<>>


\* the three collection steps of the run have returned: each one was passed
\* over at once because of its flag in the loaded checkpoint, or has written
\* its flag into the checkpoint
StepsReturned ==
  /\ Len(setup.handled) = Len(CollectionNames)
  /\ \A name \in Range(CollectionNames) :
       \/ FlagTrue(setup.checkpoint_data, name)
       \/ FlagTrue(setup.checkpoint_file, name)

\* C23, the steps: the checkpoint is removed only by a run that is past its
\* three collection steps, and a run that ends in any other way leaves the
\* checkpoint as it was last saved
C23_Steps ==
  /\ (setup.checkpoint_file # <<>> /\ setup'.checkpoint_file = <<>>) =>
       /\ setup.pc = "clear"
       /\ StepsReturned
       /\ setup'.completions = setup.completions + 1
  /\ (/\ setup.pc # "idle" /\ setup'.pc = "idle"
      /\ setup'.completions = setup.completions) =>
       setup'.checkpoint_file = setup.checkpoint_file

\* C23, the states: the checkpoint file is absent or holds a whole dict, also
\* while a save is writing and after a run that stopped inside a save, so
\* that load returns what the last completed save wrote; a run works on
\* what load returned
C23_Whole ==
  /\ setup.checkpoint_file # <<>> => setup.checkpoint_file[1] # [truncated |-> TRUE]
  /\ setup.checkpoint_data # <<>> => setup.checkpoint_data[1] # [truncated |-> TRUE]
  /\ (setup.pc = "enter_cards" /\ setup.attempt = 1) =>
       setup.checkpoint_data = setup.checkpoint_file

C24_QuantitiesEmptiedOnNewResult ==
  session.just_stored =>
    /\ session.scout_result # <<>>
    /\ session.card_quantities = <<>>

\* C24: analyzing is true when an analysis starts and false again after
\* every analysis attempt has ended, also one in which analyze_and_scout
\* raised, so that the Analyze button is never left disabled; and whenever a
\* new scout result is stored the quantities chosen before are emptied.
C24_AnalyzingFalseAfterEveryAttempt ==
  /\ session.pc = "analyzing" => session.analyzing
  /\ session.pc = "idle" => ~session.analyzing
  /\ session.pc = "idle" => ~session.button_disabled
  /\ C24_QuantitiesEmptiedOnNewResult

\* an analysis has ended by an exception and the page was drawn again
C24_Witness ==
  /\ session.pc = "idle"
  /\ session.analyzing
  /\ session.button_disabled
  /\ session.analyses < MaxAnalyses


\* ------------------------------------------------------------------------
\* Properties of the required cards of a search
\* ------------------------------------------------------------------------
\* the card is against one of the other filters of the call: cost bounds,
\* allowed factions, unit types, card types, rarity, market
Violates(card, filters) ==
  LET rarities == <<"Common", "Uncommon", "Rare", "Legendary">>
      idx(r) == CHOOSE i \in 1..Len(rarities) : rarities[i] = r
  IN  \/ filters.min_cost # <<>> /\ card.cost < filters.min_cost[1]
      \/ filters.max_cost # <<>> /\ card.cost > filters.max_cost[1]
      \/ filters.allowed_factions # <<>> /\ _filter_by_factions(<<card>>, filters) = <<>>
      \/ /\ filters.unit_types # <<>>
         /\ \A u \in 1..Len(card.unit_types) :
               Lower(card.unit_types[u]) \notin Range(LowerAll(filters.unit_types))
      \/ filters.card_types # <<>> /\ card.type \notin Range(filters.card_types)
      \/ filters.max_rarity # "" /\ idx(card.rarity) > idx(filters.max_rarity)
      \/ ~filters.include_market /\ can_access_market(card)
      \/ filters.market_access_only /\ ~can_access_market(card)

\* the must_include names of the call that the catalog knows, that
\* must_exclude does not list, and whose card is against another filter
RequiredAgainstFilters(r) ==
  {n \in KnownRequired(r) \ Range(LowerAll(r.filters_applied.must_exclude)) :
     Violates(cards_by_name(all_cards)[n], r.filters_applied)}

DistinctNames(cards) ==
  \A a, b \in 1..Len(cards) : Lower(cards[a].name) = Lower(cards[b].name) => a = b

\* C26: for a catalog whose card names are pairwise distinct
\* (case-insensitively), result.cards of search never holds the same card
\* twice, for every query and every filter set, also with a must_include
\* list that names the same card more than once or in different letter case.
C26_NoCardTwice ==
  (call = "returned" /\ DistinctNames(all_cards)) => DistinctNames(result.cards)

\* without must_include no card is returned twice
C26_NoCardTwiceWithoutRequired ==
  (/\ call = "returned" /\ DistinctNames(all_cards)
   /\ result.filters_applied.must_include = <<>>) => DistinctNames(result.cards)

\* a search whose must_include names one card twice has returned
C26_Witness ==
  /\ call = "returned"
  /\ result.filters_applied.must_include = <<"Icaria", "ICARIA">>
  /\ Len(result.cards) >= 2

====
